---- MODULE Spec2Model ----
(***************************************************************************)
(* Pod Resource Controller (CRD based variant, src/src/*.py).              *)
(*                                                                         *)
(* Quantity strings are modelled by what the codec reads from them: a      *)
(* numeric literal and a unit suffix.  [num |-> n, suf |-> s] stands for   *)
(* the string whose literal is n/1000 (CPU) or n (memory) followed by the  *)
(* suffix s; suf = "empty" is the empty string "".                         *)
(*   "100m" = [num |-> 100000, suf |-> "m"]   "0.1" = [num |-> 100, suf |-> ""] *)
(*   "128Mi" = [num |-> 128, suf |-> "Mi"]    "134217728" = [num |-> 134217728, suf |-> ""] *)
(* CPU amounts are kept in micro-cores (1 core = 1000000), memory in bytes. *)
(***************************************************************************)
EXTENDS Integers, Sequences, FiniteSets, TLC

VARIABLES
    arg_policy,     \* pure-function harness: the PolicySpec argument
    arg_pod,        \* pure-function harness: the pod argument
    ret,            \* pure-function harness: the value returned by the call
    dry_run,        \* PodReconciler.dry_run (PodResourceController.dry_run)
    cluster,        \* API server: the set of live pods, one per namespace/name
    api_policies,   \* API server: PodResourcePolicy objects, by "namespace/name"
    policy_status,  \* API server: the status subresource last patched, by key
    policies,       \* PolicyCache._policies, in insertion order
    cache_lock,     \* PolicyCache._lock: "free" or the thread holding it
    processed_pods, \* PodResourceController._processed_pods (dedup key set)
    reconciled_pods, \* PodReconciler._reconciled_pods: the keys it holds a time for
    local,          \* per thread: position and the locals of its call stack
    env_events      \* API errors, external pod changes and policy events to come

pure_vars == <<arg_policy, arg_pod, ret>>

api_vars == <<cluster, api_policies, policy_status>>

ctl_vars == <<cluster, api_policies, policy_status, policies, cache_lock,
              processed_pods, reconciled_pods, local, env_events>>

vars == <<arg_policy, arg_pod, ret, dry_run, cluster, api_policies, policy_status,
          policies, cache_lock, processed_pods, reconciled_pods, local, env_events>>

----------------------------------------------------------------------------
(* Quantity codec: src/src/utils.py *)

EmptyStr == [num |-> 0, suf |-> "empty"]

CpuStr(millis_of_literal, suffix) == [num |-> millis_of_literal, suf |-> suffix]

MemStr(literal, suffix) == [num |-> literal, suf |-> suffix]

Abs(x) == IF x < 0 THEN -x ELSE x

\* RESOURCE_TOLERANCE = 0.001 cores, in micro-cores
RESOURCE_TOLERANCE == 1000

\* parse_cpu: "" -> 0.0; "<x>m" -> x / 1000; "<x>" -> x   (result in micro-cores)
parse_cpu(cpu_string) ==
    IF cpu_string = EmptyStr THEN 0
    ELSE IF cpu_string.suf = "m" THEN cpu_string.num
    ELSE cpu_string.num * 1000

\* the suffixes of parse_memory's units table, in the order the loop tries them
units == <<"Ki", "Mi", "Gi", "Ti", "K", "M", "G", "T">>

\* units[suffix], the multiplier of a suffix
multiplier(suffix) ==
    CASE suffix = "Ki" -> 1024
      [] suffix = "Mi" -> 1024 * 1024
      [] suffix = "Gi" -> 1024 * 1024 * 1024
      [] suffix = "Ti" -> 1024 * 1024 * 1024 * 1024
      [] suffix = "K" -> 1000
      [] suffix = "M" -> 1000 * 1000
      [] suffix = "G" -> 1000 * 1000 * 1000
      [] suffix = "T" -> 1000 * 1000 * 1000 * 1000

\* str.endswith on the modelled strings: `suf` is the whole non-numeric tail
\* of the string, and no unit suffix is a proper tail of another one
EndsWith(suf, suffix) == suf = suffix

RECURSIVE parse_memory_from(_, _)
parse_memory_from(memory_string, i) ==
    IF i > Len(units) THEN memory_string.num
    ELSE IF EndsWith(memory_string.suf, units[i])
         THEN memory_string.num * multiplier(units[i])
         ELSE parse_memory_from(memory_string, i + 1)

\* parse_memory: "" -> 0; first matching suffix of the table; else plain bytes
parse_memory(memory_string) ==
    IF memory_string = EmptyStr THEN 0
    ELSE parse_memory_from(memory_string, 1)

resources_match_memory_tolerance(actual_cpu, actual_memory, desired_cpu, desired_memory, tolerance) ==
    /\ Abs(parse_cpu(actual_cpu) - parse_cpu(desired_cpu)) <= tolerance
    /\ Abs(parse_memory(actual_memory) - parse_memory(desired_memory)) <= tolerance

\* resources_match: CPU within tolerance and memory equal byte for byte
resources_match(actual_cpu, actual_memory, desired_cpu, desired_memory, tolerance) ==
    LET actual_cpu_val == parse_cpu(actual_cpu)
        desired_cpu_val == parse_cpu(desired_cpu)
        actual_memory_val == parse_memory(actual_memory)
        desired_memory_val == parse_memory(desired_memory)
        cpu_matches == Abs(actual_cpu_val - desired_cpu_val) <= tolerance
        memory_matches == actual_memory_val = desired_memory_val
    IN cpu_matches /\ memory_matches

\* An empty requests/limits mapping (None or {} in the client object)
NoBlock == [cpu |-> EmptyStr, memory |-> EmptyStr]

\* V1ResourceRequirements of one container; an absent key reads as ""
Requirements(requests, limits) == [requests |-> requests, limits |-> limits]

get_pod_resources_last(pod) ==
    IF Len(pod.containers) > 0
    THEN [requests |-> pod.containers[Len(pod.containers)].requests,
          limits |-> pod.containers[Len(pod.containers)].limits]
    ELSE [requests |-> NoBlock, limits |-> NoBlock]

\* get_pod_resources: the requests and limits of the FIRST container only
get_pod_resources(pod) ==
    IF Len(pod.containers) > 0
    THEN [requests |-> pod.containers[1].requests,
          limits |-> pod.containers[1].limits]
    ELSE [requests |-> NoBlock, limits |-> NoBlock]

----------------------------------------------------------------------------
(* PolicySpec: src/src/policy_cache.py *)

\* dict.get(key) on a label mapping: <<TRUE, v>> when present, <<FALSE>> = None
LabelGet(labels, key) ==
    IF key \in DOMAIN labels THEN <<TRUE, labels[key]>> ELSE <<FALSE>>

matches_pod_and_mode(policy, pod) ==
    /\ policy.enabled
    /\ ~(policy.target_namespace # "" /\ pod.namespace # policy.target_namespace)
    /\ pod.name \in policy.target_names
    /\ \A key \in DOMAIN policy.target_label_selector :
          LabelGet(pod.labels, key) = <<TRUE, policy.target_label_selector[key]>>

\* PolicySpec.matches_pod, in the order of its early returns
matches_pod(policy, pod) ==
    IF ~policy.enabled THEN FALSE
    ELSE IF policy.target_namespace # "" /\ pod.namespace # policy.target_namespace
         THEN FALSE
    ELSE IF policy.target_names # {} /\ pod.name \in policy.target_names
         THEN TRUE
    ELSE IF DOMAIN policy.target_label_selector # {}
         THEN \A key \in DOMAIN policy.target_label_selector :
                 LabelGet(pod.labels, key) = <<TRUE, policy.target_label_selector[key]>>
    ELSE FALSE

----------------------------------------------------------------------------
(* PodReconciler: src/src/reconciler.py *)

\* a desired block is "truthy" (a non-empty dict) iff it declares some leaf
Declared(block) == block # NoBlock

needs_reconciliation_always_requests(pod, policy) ==
    LET current == get_pod_resources(pod)
        desired == policy.resources
    IN \/ ~resources_match(current.requests.cpu, current.requests.memory,
                           desired.requests.cpu, desired.requests.memory,
                           RESOURCE_TOLERANCE)
       \/ /\ Declared(desired.limits)
          /\ ~resources_match(current.limits.cpu, current.limits.memory,
                              desired.limits.cpu, desired.limits.memory,
                              RESOURCE_TOLERANCE)

\* PodReconciler.needs_reconciliation
needs_reconciliation(pod, policy) ==
    LET current == get_pod_resources(pod)
        desired == policy.resources
        desired_requests == desired.requests
        desired_limits == desired.limits
    IN IF Declared(desired_requests)
          /\ ~resources_match(current.requests.cpu, current.requests.memory,
                              desired_requests.cpu, desired_requests.memory,
                              RESOURCE_TOLERANCE)
       THEN TRUE
       ELSE IF Declared(desired_limits)
               /\ ~resources_match(current.limits.cpu, current.limits.memory,
                                   desired_limits.cpu, desired_limits.memory,
                                   RESOURCE_TOLERANCE)
       THEN TRUE
       ELSE FALSE

reconcile_decision_never_compliant(pod, policy, simulate) ==
    IF simulate THEN "dry-run" ELSE "apply"

reconcile_decision_no_dry_run(pod, policy, simulate) ==
    IF ~needs_reconciliation(pod, policy) THEN "compliant" ELSE "apply"

\* reconcile_pod up to its first API call: the status it returns at once,
\* or "apply" when it goes on to delete and recreate the pod
reconcile_decision(pod, policy, simulate) ==
    IF ~needs_reconciliation(pod, policy) THEN "compliant"
    ELSE IF simulate THEN "dry-run"
    ELSE "apply"

----------------------------------------------------------------------------
(* Inputs of the pure-function harness *)

PodNames == {"web", "db"}

Namespaces == {"ns1", "ns2"}

LabelKeys == {"app", "tier"}

LabelValues == {"foo", "bar"}

\* every label mapping over LabelKeys (a dict: each key absent or bound once)
LabelMaps == UNION {[keys -> LabelValues] : keys \in SUBSET LabelKeys}

\* "", "100m", "0.1", "250m"
CpuStrings == {EmptyStr, CpuStr(100000, "m"), CpuStr(100, ""), CpuStr(250000, "m")}

\* "", "128Mi", "134217728"
MemStrings == {EmptyStr, MemStr(128, "Mi"), MemStr(134217728, "")}

Blocks == [cpu : CpuStrings, memory : MemStrings]

NoResources == [requests |-> NoBlock, limits |-> NoBlock]

MakePolicy(name, namespace, names, selector, target_namespace, resources, enabled) ==
    [name |-> name, namespace |-> namespace, target_names |-> names,
     target_label_selector |-> selector, target_namespace |-> target_namespace,
     resources |-> resources, enabled |-> enabled]

\* metadata.annotations: the two the controller writes that the model keeps
\* (absent: "" and <<>>) and one of somebody else
NoAnnotations == [managed_by |-> "", original_resources |-> <<>>, note |-> ""]

MakePod(name, namespace, uid, labels, containers) ==
    [name |-> name, namespace |-> namespace, uid |-> uid, labels |-> labels,
     annotations |-> NoAnnotations, containers |-> containers]

NoRet == [fn |-> "none", bool |-> FALSE, status |-> ""]

\* the pod with `leaf` of `block` of its first container set to `value`
WithLeaf(pod, block, leaf, value) ==
    [pod EXCEPT !.containers[1][block][leaf] = value]

\* the pod with `block` of its first container replaced
WithBlock(pod, block, value) ==
    [pod EXCEPT !.containers[1][block] = value]

OtherBlock(block) == IF block = "requests" THEN "limits" ELSE "requests"

LeafValues(leaf) == IF leaf = "cpu" THEN CpuStrings ELSE MemStrings

----------------------------------------------------------------------------
(* The threads, the cluster and the policy objects of the controller model *)

\* the three threads PodResourceController.run starts
Workers == {"policy-watcher", "pod-watcher", "periodic-reconciler"}

\* "caller" runs reconcile_pod alone, call after call (SeqSpec)
Threads == Workers \cup {"caller"}

\* what the environment still does to the controller: an API call that fails,
\* a pod replaced from outside, a policy stream event
MaxEnvEvents == 1

\* pods the pod watcher takes up between two clears of the dedup set
MaxProcessed == 1

\* uids stand for unique ids: a new pod gets the least uid nothing remembers
MaxUid == 12

\* dict.get(key, default)
Get(dict, key, default) == IF key \in DOMAIN dict THEN dict[key] ELSE default

\* PolicySpec.from_crd: absent fields take their defaults
from_crd(crd_object) ==
    LET metadata == Get(crd_object, "metadata", <<>>)
        spec == Get(crd_object, "spec", <<>>)
        target_pods == Get(spec, "targetPods", <<>>)
    IN MakePolicy(Get(metadata, "name", ""),
                  Get(metadata, "namespace", "default"),
                  Get(target_pods, "names", {}),
                  Get(target_pods, "labelSelector", <<>>),
                  Get(target_pods, "namespace", Get(metadata, "namespace", "default")),
                  Get(spec, "resources", NoResources),
                  Get(spec, "enabled", TRUE))

\* PolicyCache._make_key, and the same "namespace/name" key of a pod
make_key(namespace, name) == <<namespace, name>>

PolicyKey(policy) == make_key(policy.namespace, policy.name)

PodKey(pod) == make_key(pod.namespace, pod.name)

\* the dedup key of handle_pod_event: namespace/name/uid
ProcessedKey(pod) == <<pod.namespace, pod.name, pod.uid>>

\* "250m" / "128Mi" requests, no limits
RequestsHigh == [cpu |-> CpuStr(250000, "m"), memory |-> MemStr(128, "Mi")]

\* "100m" / "128Mi"
RequestsLow == [cpu |-> CpuStr(100000, "m"), memory |-> MemStr(128, "Mi")]

\* limits of "0.1" cpu only
LimitsCpu == [cpu |-> CpuStr(100, ""), memory |-> EmptyStr]

\* polA: pods web and db by name, requests 250m/128Mi, namespace and enabled defaulted
PolA ==
    [metadata |-> [name |-> "polA", namespace |-> "ns1"],
     spec |-> [targetPods |-> [names |-> {"web", "db"}],
               resources |-> [requests |-> RequestsHigh, limits |-> NoBlock]]]

\* polA switched off
PolAOff ==
    [metadata |-> [name |-> "polA", namespace |-> "ns1"],
     spec |-> [targetPods |-> [names |-> {"web", "db"}],
               resources |-> [requests |-> RequestsHigh, limits |-> NoBlock],
               enabled |-> FALSE]]

\* polB: pods labelled app=foo in ns1, limits of 0.1 cpu only
PolB ==
    [metadata |-> [name |-> "polB", namespace |-> "ns1"],
     spec |-> [targetPods |-> [labelSelector |-> [app |-> "foo"], namespace |-> "ns1"],
               resources |-> [requests |-> NoBlock, limits |-> LimitsCpu],
               enabled |-> TRUE]]

PolicyObjects == {PolA, PolAOff}

ObjectKey(crd_object) == PolicyKey(from_crd(crd_object))

PolicyKeys == {ObjectKey(o) : o \in PolicyObjects}

\* the requirements a pod of the cluster starts with, or is replaced with
PodRequirements ==
    {Requirements(RequestsLow, NoBlock), Requirements(RequestsHigh, NoBlock)}

WebPod(requirements) ==
    MakePod("web", "ns1", 1, [app |-> "foo"], <<requirements, requirements>>)

NilPod == MakePod("", "", 0, <<>>, <<>>)

NilPolicy == MakePolicy("", "", {}, <<>>, "", NoResources, FALSE)

NoStatus == [phase |-> "", managedPods |-> <<>>]

\* the locals of a thread outside any call
Parked(at) ==
    [pc |-> at, object |-> <<>>, policy |-> NilPolicy, pol_todo |-> <<>>,
     todo |-> <<>>, results |-> <<>>, pod |-> NilPod, status |-> "",
     n_delete |-> 0, n_create |-> 0, deleted |-> "", watch_ns |-> "", calls |-> 0]

\* a result dict of reconcile_pod; lastUpdated is a wall-clock time, and the
\* runs of the controller model take place within one instant of it
Result(pod, status) ==
    [name |-> pod.name, namespace |-> pod.namespace, status |-> status, lastUpdated |-> 0]

\* the live pod of a key, or NilPod
LivePod(key) ==
    IF \E p \in cluster : PodKey(p) = key
    THEN CHOOSE p \in cluster : PodKey(p) = key
    ELSE NilPod

RECURSIVE SeqUids(_)
SeqUids(pods) == IF pods = <<>> THEN {} ELSE {Head(pods).uid} \cup SeqUids(Tail(pods))

\* every uid some part of the state still holds
UsedUids ==
    {p.uid : p \in cluster} \cup {k[3] : k \in processed_pods}
    \cup UNION {{local[w].pod.uid} \cup SeqUids(local[w].todo) : w \in Threads}

FreshUid == CHOOSE u \in 1..MaxUid : u \notin UsedUids /\ \A v \in 1..(u - 1) : v \in UsedUids

\* the controller's variables while a pure function is applied
ControllerIdle ==
    /\ cluster = {}
    /\ api_policies = {}
    /\ policy_status = [k \in PolicyKeys |-> NoStatus]
    /\ policies = <<>>
    /\ cache_lock = "free"
    /\ processed_pods = {}
    /\ reconciled_pods = {}
    /\ local = [w \in Threads |-> Parked("parked")]
    /\ env_events = 0

HarnessIdle ==
    /\ arg_policy = NilPolicy
    /\ arg_pod = NilPod
    /\ ret = NoRet

----------------------------------------------------------------------------
(* MatchSpec: matches_pod applied to every policy and pod of the input sets *)

MatchInit ==
    /\ arg_policy \in
          {MakePolicy("polA", "ns1", names, selector, tns, NoResources, enabled) :
              names \in SUBSET PodNames, selector \in LabelMaps,
              tns \in {""} \cup Namespaces, enabled \in BOOLEAN}
    /\ arg_pod \in
          {MakePod(name, ns, 1, labels, <<Requirements(NoBlock, NoBlock)>>) :
              name \in PodNames, ns \in Namespaces, labels \in LabelMaps}
    /\ dry_run = FALSE
    /\ ret = NoRet
    /\ ControllerIdle

CallMatchesPod ==
    /\ ret.fn = "none"
    /\ ret' = [fn |-> "matches_pod", bool |-> matches_pod(arg_policy, arg_pod),
               status |-> ""]
    /\ UNCHANGED <<arg_policy, arg_pod, dry_run, ctl_vars>>

MatchNext == CallMatchesPod

MatchSpec == MatchInit /\ [][MatchNext]_vars

labelsSubsetMatch(selector, labels) ==
    /\ DOMAIN selector # {}
    /\ \A key \in DOMAIN selector : key \in DOMAIN labels /\ labels[key] = selector[key]

\* C1: matches_pod(P, w) is true iff P is enabled, and P.targetNamespace is
\* empty or equals w.namespace, and w.name is in P.targetNames or the non-empty
\* label selector is contained in w.labels (name and label match OR-combined).
C1_MatchPredicate ==
    ret.fn = "matches_pod" =>
        (ret.bool <=>
            /\ arg_policy.enabled
            /\ (arg_policy.target_namespace = ""
                \/ arg_pod.namespace = arg_policy.target_namespace)
            /\ (arg_pod.name \in arg_policy.target_names
                \/ labelsSubsetMatch(arg_policy.target_label_selector, arg_pod.labels)))

\* matched by labels alone, under a namespace restriction, name not targeted
C1_Witness ==
    /\ ret.fn = "matches_pod"
    /\ ret.bool
    /\ arg_policy.target_namespace # ""
    /\ arg_policy.target_names # {}
    /\ arg_pod.name \notin arg_policy.target_names

----------------------------------------------------------------------------
(* NeedsSpec: needs_reconciliation and reconcile_pod's decision applied to   *)
(* every desired-resources mapping and every first-container resources       *)

NeedsInit ==
    /\ arg_policy \in
          {MakePolicy("polA", "ns1", {"web"}, <<>>, "ns1",
                      [requests |-> rq, limits |-> lm], TRUE) :
              rq \in Blocks, lm \in Blocks}
    /\ arg_pod \in
          {MakePod("web", "ns1", 1, <<>>, <<Requirements(rq, lm)>>) :
              rq \in Blocks, lm \in Blocks}
    /\ dry_run \in BOOLEAN
    /\ ret = NoRet
    /\ ControllerIdle

CallNeedsReconciliation ==
    /\ ret.fn = "none"
    /\ ret' = [fn |-> "needs_reconciliation",
               bool |-> needs_reconciliation(arg_pod, arg_policy), status |-> ""]
    /\ UNCHANGED <<arg_policy, arg_pod, dry_run, ctl_vars>>

CallReconcilePod ==
    /\ ret.fn = "none"
    /\ ret' = [fn |-> "reconcile_pod",
               bool |-> needs_reconciliation(arg_pod, arg_policy),
               status |-> reconcile_decision(arg_pod, arg_policy, dry_run)]
    /\ UNCHANGED <<arg_policy, arg_pod, dry_run, ctl_vars>>

NeedsNext == CallNeedsReconciliation \/ CallReconcilePod

NeedsSpec == NeedsInit /\ [][NeedsNext]_vars

\* C2: a leaf the policy does not declare never decides needs_reconciliation:
\* the result is the same for every value the workload carries on that leaf.
C2_UndeclaredLeafIgnored ==
    ret.fn = "needs_reconciliation" =>
        \A block \in {"requests", "limits"}, leaf \in {"cpu", "memory"} :
            arg_policy.resources[block][leaf] = EmptyStr =>
                \A value \in LeafValues(leaf) :
                    needs_reconciliation(WithLeaf(arg_pod, block, leaf, value), arg_policy)
                        = ret.bool

\* the declared block of the policy matches the pod's first container
DeclaredBlockMatches(pod, policy, block) ==
    resources_match(get_pod_resources(pod)[block].cpu,
                    get_pod_resources(pod)[block].memory,
                    policy.resources[block].cpu, policy.resources[block].memory,
                    RESOURCE_TOLERANCE)

\* C3: with exactly one of the requests and limits blocks declared, the pod's
\* values in the undeclared block never change needs_reconciliation or the
\* outcome of reconcile_pod, and a pod whose declared block matches is compliant.
C3_UndeclaredBlockIgnored ==
    \A block \in {"requests", "limits"} :
        (/\ ret.fn \in {"needs_reconciliation", "reconcile_pod"}
         /\ ~Declared(arg_policy.resources[block])
         /\ Declared(arg_policy.resources[OtherBlock(block)])) =>
            /\ \A value \in Blocks :
                  needs_reconciliation(WithBlock(arg_pod, block, value), arg_policy)
                      = ret.bool
            /\ ret.fn = "reconcile_pod" =>
                  /\ \A value \in Blocks :
                        reconcile_decision(WithBlock(arg_pod, block, value),
                                           arg_policy, dry_run) = ret.status
                  /\ DeclaredBlockMatches(arg_pod, arg_policy, OtherBlock(block))
                        => ret.status = "compliant"

\* limits-only policy, pod with non-empty requests, matching limits: compliant
C3_Witness ==
    /\ ret.fn = "reconcile_pod"
    /\ ~Declared(arg_policy.resources.requests)
    /\ Declared(arg_policy.resources.limits)
    /\ arg_pod.containers[1].requests # NoBlock
    /\ ret.status = "compliant"

----------------------------------------------------------------------------
(* The API server as the controller sees it *)

\* pods come back in key order
PodOrder == <<"db", "web">>

\* CoreV1Api.list_namespaced_pod: snapshots of the live pods of a namespace
list_namespaced_pod(namespace) ==
    LET names == SelectSeq(PodOrder, LAMBDA n : LivePod(make_key(namespace, n)) # NilPod)
    IN [i \in 1..Len(names) |-> LivePod(make_key(namespace, names[i]))]

\* an API call may fail while injected errors remain
FailChoices == IF env_events > 0 THEN {FALSE, TRUE} ELSE {FALSE}

Spend(fail) == env_events' = IF fail THEN env_events - 1 ELSE env_events

ApiPolicyKeys == {ObjectKey(o) : o \in api_policies}

----------------------------------------------------------------------------
(* PolicyCache: src/src/policy_cache.py *)

CacheOps ==
    {"add_or_update", "remove", "find_matching_policy", "get_all", "get_target_namespaces"}

\* self._policies[key] = policy: a new key goes last, a known key keeps its place
Upsert(cache, policy) ==
    IF \E i \in DOMAIN cache : PolicyKey(cache[i]) = PolicyKey(policy)
    THEN [i \in DOMAIN cache |->
            IF PolicyKey(cache[i]) = PolicyKey(policy) THEN policy ELSE cache[i]]
    ELSE Append(cache, policy)

\* self._policies.pop(key, None)
Pop(cache, key) == SelectSeq(cache, LAMBDA p : PolicyKey(p) # key)

LastMatching(cache, pod) ==
    LET hits == {i \in DOMAIN cache : matches_pod(cache[i], pod)}
    IN IF hits = {} THEN <<>>
       ELSE <<cache[CHOOSE i \in hits : \A j \in hits : i >= j]>>

\* the first policy, in iteration order, that matches the pod; <<>> for None
FirstMatching(cache, pod) ==
    LET hits == {i \in DOMAIN cache : matches_pod(cache[i], pod)}
    IN IF hits = {} THEN <<>>
       ELSE <<cache[CHOOSE i \in hits : \A j \in hits : i <= j]>>

TargetNamespacesOfAll(cache) ==
    {cache[i].target_namespace :
        i \in {j \in DOMAIN cache : cache[j].target_namespace # ""}}

TargetNamespaces(cache) ==
    {cache[i].target_namespace :
        i \in {j \in DOMAIN cache : cache[j].enabled /\ cache[j].target_namespace # ""}}

----------------------------------------------------------------------------
(* The threads' steps.  local[w].pc names the call the thread makes next.   *)

PW == "policy-watcher"

WW == "pod-watcher"

PR == "periodic-reconciler"

SetLocal(w, frame) == local' = [local EXCEPT ![w] = frame]

\* where a thread waits between two passes, with the locals it keeps
Rest(w) ==
    CASE w = PW -> Parked("watch")
      [] w = WW -> [Parked("stream") EXCEPT !.watch_ns = local[w].watch_ns]
      [] w = PR -> [Parked("next_policy") EXCEPT !.pol_todo = local[w].pol_todo]
      [] OTHER -> [local[w] EXCEPT !.pc = "returned"]

\* `with self._lock:` entered
LockAcquire(w) ==
    /\ local[w].pc \in CacheOps
    /\ cache_lock = "free"
    /\ cache_lock' = w
    /\ UNCHANGED <<pure_vars, dry_run, api_vars, policies, processed_pods,
                   reconciled_pods, local, env_events>>

\* the policy stream: an object is added, modified or deleted and the event
\* reaches handle_policy_event
PolicyEvent(w) ==
    /\ w = PW
    /\ local[w].pc = "watch"
    /\ env_events > 0
    /\ \E type \in {"ADDED", "MODIFIED", "DELETED"}, obj \in PolicyObjects :
          /\ type = "ADDED" => ObjectKey(obj) \notin ApiPolicyKeys
          /\ type = "MODIFIED" => ObjectKey(obj) \in ApiPolicyKeys /\ obj \notin api_policies
          /\ type = "DELETED" => obj \in api_policies
          /\ api_policies' =
                {o \in api_policies : ObjectKey(o) # ObjectKey(obj)}
                \cup (IF type = "DELETED" THEN {} ELSE {obj})
          /\ policy_status' =
                IF type = "DELETED"
                THEN [policy_status EXCEPT ![ObjectKey(obj)] = NoStatus]
                ELSE policy_status
          /\ SetLocal(w, [Parked(IF type = "DELETED" THEN "remove" ELSE "add_or_update")
                            EXCEPT !.object = obj])
    /\ env_events' = env_events - 1
    /\ UNCHANGED <<pure_vars, dry_run, cluster, policies, cache_lock, processed_pods,
                   reconciled_pods>>

\* the policy stream reopened: an ADDED event for an object that exists
PolicyRelist(w) ==
    /\ w = PW
    /\ local[w].pc = "watch"
    /\ \E obj \in api_policies :
          SetLocal(w, [Parked("add_or_update") EXCEPT !.object = obj])
    /\ UNCHANGED <<pure_vars, dry_run, api_vars, policies, cache_lock, processed_pods,
                   reconciled_pods, env_events>>

add_or_update_merge(w) ==
    /\ local[w].pc = "add_or_update"
    /\ cache_lock = w
    /\ LET parsed == from_crd(local[w].object)
           old == {i \in DOMAIN policies : PolicyKey(policies[i]) = PolicyKey(parsed)}
           policy == IF old = {} \/ "enabled" \in DOMAIN local[w].object.spec
                     THEN parsed
                     ELSE [parsed EXCEPT !.enabled = policies[CHOOSE i \in old : TRUE].enabled]
       IN /\ policies' = Upsert(policies, policy)
          /\ SetLocal(w, IF policy.enabled
                         THEN [Parked("list_pods") EXCEPT !.policy = policy]
                         ELSE Rest(w))
    /\ cache_lock' = "free"
    /\ UNCHANGED <<pure_vars, dry_run, api_vars, processed_pods, reconciled_pods,
                   env_events>>

add_or_update_any(w) ==
    /\ local[w].pc = "add_or_update"
    /\ cache_lock = w
    /\ LET policy == from_crd(local[w].object)
       IN /\ policies' = Upsert(policies, policy)
          /\ SetLocal(w, [Parked("list_pods") EXCEPT !.policy = policy])
    /\ cache_lock' = "free"
    /\ UNCHANGED <<pure_vars, dry_run, api_vars, processed_pods, reconciled_pods,
                   env_events>>

\* handle_policy_event, ADDED/MODIFIED: PolicyCache.add_or_update, then
\* reconcile_all_pods_for_policy if the policy is enabled
add_or_update(w) ==
    /\ local[w].pc = "add_or_update"
    /\ cache_lock = w
    /\ LET policy == from_crd(local[w].object)
       IN /\ policies' = Upsert(policies, policy)
          /\ SetLocal(w, IF policy.enabled
                         THEN [Parked("list_pods") EXCEPT !.policy = policy]
                         ELSE Rest(w))
    /\ cache_lock' = "free"
    /\ UNCHANGED <<pure_vars, dry_run, api_vars, processed_pods, reconciled_pods,
                   env_events>>

remove_cascade(w) ==
    /\ local[w].pc = "remove"
    /\ cache_lock = w
    /\ policies' = Pop(policies, ObjectKey(local[w].object))
    /\ cluster' = {p \in cluster : ~matches_pod(from_crd(local[w].object), p)}
    /\ SetLocal(w, Rest(w))
    /\ cache_lock' = "free"
    /\ UNCHANGED <<pure_vars, dry_run, api_policies, policy_status, processed_pods,
                   reconciled_pods, env_events>>

\* handle_policy_event, DELETED: PolicyCache.remove only
remove(w) ==
    /\ local[w].pc = "remove"
    /\ cache_lock = w
    /\ policies' = Pop(policies, ObjectKey(local[w].object))
    /\ SetLocal(w, Rest(w))
    /\ cache_lock' = "free"
    /\ UNCHANGED <<pure_vars, dry_run, api_vars, processed_pods, reconciled_pods,
                   env_events>>

\* reconcile_all_pods_for_policy returns its empty list: to the status report
\* of a worker, or to the caller
NoResults(w) ==
    [local[w] EXCEPT !.pc = IF w \in Workers THEN "update_status" ELSE "returned",
                     !.todo = <<>>, !.results = <<>>]

list_pods_of_any(w) ==
    /\ local[w].pc = "list_pods"
    /\ \E fail \in FailChoices :
          /\ Spend(fail)
          /\ SetLocal(w,
                IF fail
                THEN NoResults(w)
                ELSE [local[w] EXCEPT
                        !.pc = "reconcile_pod",
                        !.todo = SelectSeq(list_namespaced_pod(local[w].policy.target_namespace),
                                           LAMBDA p : matches_pod(local[w].policy, p)),
                        !.results = <<>>])
    /\ UNCHANGED <<pure_vars, dry_run, api_vars, policies, cache_lock, processed_pods,
                   reconciled_pods>>

\* reconcile_all_pods_for_policy: nothing for a disabled policy; else list the
\* target namespace, keep the matching pods
list_pods(w) ==
    /\ local[w].pc = "list_pods"
    /\ IF ~local[w].policy.enabled
       THEN /\ SetLocal(w, NoResults(w))
            /\ UNCHANGED env_events
       ELSE \E fail \in FailChoices :
               /\ Spend(fail)
               /\ SetLocal(w,
                     IF fail
                     THEN NoResults(w)
                     ELSE [local[w] EXCEPT
                             !.pc = "reconcile_pod",
                             !.todo = SelectSeq(
                                 list_namespaced_pod(local[w].policy.target_namespace),
                                 LAMBDA p : matches_pod(local[w].policy, p)),
                             !.results = <<>>])
    /\ UNCHANGED <<pure_vars, dry_run, api_vars, policies, cache_lock, processed_pods,
                   reconciled_pods>>

\* the loop over the matching pods is over
reconcile_loop_end(w) ==
    /\ local[w].pc = "reconcile_pod"
    /\ local[w].todo = <<>>
    /\ SetLocal(w, IF w \in Workers
                   THEN [local[w] EXCEPT !.pc = "update_status"]
                   ELSE Rest(w))
    /\ UNCHANGED <<pure_vars, dry_run, api_vars, policies, cache_lock, processed_pods,
                   reconciled_pods, env_events>>

reconcile_pod_skip_delete(w) ==
    /\ local[w].pc = "reconcile_pod"
    /\ local[w].todo # <<>>
    /\ LET pod == Head(local[w].todo)
           decision == reconcile_decision(pod, local[w].policy, dry_run)
           entered == [local[w] EXCEPT !.pod = pod, !.todo = Tail(local[w].todo),
                                       !.n_delete = 0, !.n_create = 0, !.deleted = ""]
       IN SetLocal(w,
             IF decision = "apply"
             THEN [entered EXCEPT !.pc = "create", !.status = "unchanged"]
             ELSE [entered EXCEPT !.status = decision,
                                  !.results = Append(local[w].results,
                                                     Result(pod, decision))])
    /\ UNCHANGED <<pure_vars, dry_run, api_vars, policies, cache_lock, processed_pods,
                   reconciled_pods, env_events>>

\* reconcile_pod up to its first API call
reconcile_pod(w) ==
    /\ local[w].pc = "reconcile_pod"
    /\ local[w].todo # <<>>
    /\ LET pod == Head(local[w].todo)
           decision == reconcile_decision(pod, local[w].policy, dry_run)
           entered == [local[w] EXCEPT !.pod = pod, !.todo = Tail(local[w].todo),
                                       !.n_delete = 0, !.n_create = 0, !.deleted = ""]
       IN SetLocal(w,
             IF decision = "apply"
             THEN [entered EXCEPT !.pc = "delete", !.status = "unchanged"]
             ELSE [entered EXCEPT !.status = decision,
                                  !.results = Append(local[w].results,
                                                     Result(pod, decision))])
    /\ UNCHANGED <<pure_vars, dry_run, api_vars, policies, cache_lock, processed_pods,
                   reconciled_pods, env_events>>

delete_namespaced_pod_abort_pass(w) ==
    /\ local[w].pc = "delete"
    /\ \E fail \in FailChoices :
          /\ Spend(fail)
          /\ cluster' = IF fail THEN cluster
                        ELSE {p \in cluster : PodKey(p) # PodKey(local[w].pod)}
          /\ SetLocal(w,
                IF fail
                THEN [local[w] EXCEPT !.pc = "reconcile_pod", !.status = "error",
                                      !.n_delete = @ + 1, !.deleted = "error",
                                      !.todo = <<>>,
                                      !.results = Append(@, Result(local[w].pod, "error"))]
                ELSE [local[w] EXCEPT !.pc = "create", !.n_delete = @ + 1,
                                      !.deleted = IF LivePod(PodKey(local[w].pod)) = NilPod
                                                  THEN "404" ELSE "ok"])
    /\ UNCHANGED <<pure_vars, dry_run, api_policies, policy_status, policies, cache_lock,
                   processed_pods, reconciled_pods>>

delete_namespaced_pod_404_fatal(w) ==
    /\ local[w].pc = "delete"
    /\ \E fail \in FailChoices :
          LET gone == LivePod(PodKey(local[w].pod)) = NilPod
          IN /\ Spend(fail)
             /\ cluster' = IF fail THEN cluster
                           ELSE {p \in cluster : PodKey(p) # PodKey(local[w].pod)}
             /\ SetLocal(w,
                   IF fail \/ gone
                   THEN [local[w] EXCEPT !.pc = "reconcile_pod", !.status = "error",
                                         !.n_delete = @ + 1,
                                         !.deleted = IF fail THEN "error" ELSE "404",
                                         !.results = Append(@, Result(local[w].pod, "error"))]
                   ELSE [local[w] EXCEPT !.pc = "create", !.n_delete = @ + 1,
                                         !.deleted = "ok"])
    /\ UNCHANGED <<pure_vars, dry_run, api_policies, policy_status, policies, cache_lock,
                   processed_pods, reconciled_pods>>

\* reconcile_pod: delete_namespaced_pod(name, namespace, grace_period_seconds=0);
\* a 404 (no live pod of that name) is passed over, any other error ends the
\* call; then time.sleep(1).  local[w].deleted keeps how the delete ended.
delete_namespaced_pod(w) ==
    /\ local[w].pc = "delete"
    /\ \E fail \in FailChoices :
          /\ Spend(fail)
          /\ cluster' = IF fail THEN cluster
                        ELSE {p \in cluster : PodKey(p) # PodKey(local[w].pod)}
          /\ SetLocal(w,
                IF fail
                THEN [local[w] EXCEPT !.pc = "reconcile_pod", !.status = "error",
                                      !.n_delete = @ + 1, !.deleted = "error",
                                      !.results = Append(@, Result(local[w].pod, "error"))]
                ELSE [local[w] EXCEPT !.pc = "create", !.n_delete = @ + 1,
                                      !.deleted = IF LivePod(PodKey(local[w].pod)) = NilPod
                                                  THEN "404" ELSE "ok"])
    /\ UNCHANGED <<pure_vars, dry_run, api_policies, policy_status, policies, cache_lock,
                   processed_pods, reconciled_pods>>

\* serialize_resources: json.dumps of the snapshot dict, here the four strings
\* in the order the dict holds them
serialize_resources(resources) ==
    <<resources.requests.cpu, resources.requests.memory,
      resources.limits.cpu, resources.limits.memory>>

create_reconciled_pod_first_container(original_pod, policy, original_resources) ==
    LET desired == policy.resources
    IN [original_pod EXCEPT
          !.uid = 0,
          !.annotations = [original_pod.annotations EXCEPT
                             !.managed_by = policy.name,
                             !.original_resources = serialize_resources(original_resources)],
          !.containers[1] = Requirements(desired.requests, desired.limits)]

create_reconciled_pod_keep_resources(original_pod, policy, original_resources) ==
    [original_pod EXCEPT
        !.uid = 0,
        !.annotations = [original_pod.annotations EXCEPT
                           !.managed_by = policy.name,
                           !.original_resources = serialize_resources(original_resources)]]

\* _create_reconciled_pod: the original's name, namespace, labels and spec,
\* the policy's resources on every container, the audit annotations, and no
\* server-assigned field (uid 0 stands for None)
create_reconciled_pod(original_pod, policy, original_resources) ==
    LET desired == policy.resources
        requests == [cpu |-> IF desired.requests.cpu # EmptyStr
                             THEN desired.requests.cpu ELSE EmptyStr,
                     memory |-> IF desired.requests.memory # EmptyStr
                                THEN desired.requests.memory ELSE EmptyStr]
        limits == [cpu |-> IF desired.limits.cpu # EmptyStr
                           THEN desired.limits.cpu ELSE EmptyStr,
                   memory |-> IF desired.limits.memory # EmptyStr
                              THEN desired.limits.memory ELSE EmptyStr]
    IN [name |-> original_pod.name,
        namespace |-> original_pod.namespace,
        uid |-> 0,
        labels |-> original_pod.labels,
        annotations |-> [original_pod.annotations EXCEPT
                           !.managed_by = policy.name,
                           !.original_resources = serialize_resources(original_resources)],
        containers |-> [i \in DOMAIN original_pod.containers |->
                           Requirements(requests, limits)]]

create_namespaced_pod_retry(w) ==
    /\ local[w].pc = "create"
    /\ \E fail \in FailChoices :
          LET pod == local[w].pod
              new_pod == create_reconciled_pod(pod, local[w].policy, get_pod_resources(pod))
              created == ~fail /\ LivePod(PodKey(pod)) = NilPod
          IN /\ Spend(fail)
             /\ cluster' = IF created
                           THEN cluster \cup {[new_pod EXCEPT !.uid = FreshUid]}
                           ELSE cluster
             /\ reconciled_pods' = IF created
                                   THEN reconciled_pods \cup {PodKey(pod)}
                                   ELSE reconciled_pods
             /\ SetLocal(w,
                   IF created
                   THEN [local[w] EXCEPT !.pc = "reconcile_pod", !.status = "reconciled",
                                         !.n_create = @ + 1, !.deleted = "",
                                         !.results = Append(@, Result(pod, "reconciled"))]
                   ELSE [local[w] EXCEPT !.n_create = @ + 1])
    /\ UNCHANGED <<pure_vars, dry_run, api_policies, policy_status, policies, cache_lock,
                   processed_pods>>

\* reconcile_pod: create_namespaced_pod(namespace, body=new_pod); the server
\* refuses a name that is live (409) and gives a created pod a new uid
create_namespaced_pod_silent(w) ==
    /\ local[w].pc = "create"
    /\ \E fail \in FailChoices :
          LET pod == local[w].pod
              new_pod == create_reconciled_pod(pod, local[w].policy, get_pod_resources(pod))
              created == ~fail /\ LivePod(PodKey(pod)) = NilPod
              status == IF created THEN "reconciled" ELSE local[w].status
          IN /\ Spend(fail)
             /\ cluster' = IF created
                           THEN cluster \cup {[new_pod EXCEPT !.uid = FreshUid]}
                           ELSE cluster
             /\ reconciled_pods' = IF created
                                   THEN reconciled_pods \cup {PodKey(pod)}
                                   ELSE reconciled_pods
             /\ SetLocal(w, [local[w] EXCEPT !.pc = "reconcile_pod", !.status = status,
                                             !.n_create = @ + 1, !.deleted = "",
                                             !.results = Append(@, Result(pod, status))])
    /\ UNCHANGED <<pure_vars, dry_run, api_policies, policy_status, policies, cache_lock,
                   processed_pods>>

create_namespaced_pod(w) ==
    /\ local[w].pc = "create"
    /\ \E fail \in FailChoices :
          LET pod == local[w].pod
              new_pod == create_reconciled_pod(pod, local[w].policy, get_pod_resources(pod))
              created == ~fail /\ LivePod(PodKey(pod)) = NilPod
              status == IF created THEN "reconciled" ELSE "error"
          IN /\ Spend(fail)
             /\ cluster' = IF created
                           THEN cluster \cup {[new_pod EXCEPT !.uid = FreshUid]}
                           ELSE cluster
             /\ reconciled_pods' = IF created
                                   THEN reconciled_pods \cup {PodKey(pod)}
                                   ELSE reconciled_pods
             /\ SetLocal(w, [local[w] EXCEPT !.pc = "reconcile_pod", !.status = status,
                                             !.n_create = @ + 1, !.deleted = "",
                                             !.results = Append(@, Result(pod, status))])
    /\ UNCHANGED <<pure_vars, dry_run, api_policies, policy_status, policies, cache_lock,
                   processed_pods>>

status_phase_of_last(results) ==
    IF results # <<>> /\ results[Len(results)].status = "error" THEN "Error" ELSE "Reconciled"

\* _update_policy_status: has_error is set by any result with status "error"
status_phase(results) ==
    IF \E i \in DOMAIN results : results[i].status = "error" THEN "Error" ELSE "Reconciled"

\* _update_policy_status: one summary dict appended per result, with four of
\* its fields
managed_pods(results) ==
    [i \in 1..Len(results) |->
        [name |-> results[i].name, namespace |-> results[i].namespace,
         status |-> results[i].status, lastUpdated |-> results[i].lastUpdated]]

update_policy_status_unguarded(w) ==
    /\ local[w].pc = "update_status"
    /\ LET results == local[w].results
           key == PolicyKey(local[w].policy)
       IN policy_status' =
             [policy_status EXCEPT
                ![key] = [phase |-> status_phase(results),
                          managedPods |-> managed_pods(results)]]
    /\ SetLocal(w, Rest(w))
    /\ UNCHANGED <<pure_vars, dry_run, cluster, api_policies, policies, cache_lock,
                   processed_pods, reconciled_pods, env_events>>

\* _update_policy_status: nothing for an empty batch; get_policy, and nothing
\* if the object is gone; else patch phase and managedPods
update_policy_status(w) ==
    /\ local[w].pc = "update_status"
    /\ LET results == local[w].results
           key == PolicyKey(local[w].policy)
       IN policy_status' =
             IF results # <<>> /\ key \in ApiPolicyKeys
             THEN [policy_status EXCEPT
                     ![key] = [phase |-> status_phase(results),
                               managedPods |-> managed_pods(results)]]
             ELSE policy_status
    /\ SetLocal(w, Rest(w))
    /\ UNCHANGED <<pure_vars, dry_run, cluster, api_policies, policies, cache_lock,
                   processed_pods, reconciled_pods, env_events>>

\* watch_pods: PolicyCache.get_target_namespaces, then a stream on the first
\* namespace of the list (a list made of a set: any of them), or on all
get_target_namespaces(w) ==
    /\ local[w].pc = "get_target_namespaces"
    /\ cache_lock = w
    /\ \E ns \in (IF TargetNamespaces(policies) = {} THEN {""}
                  ELSE TargetNamespaces(policies)) :
          SetLocal(w, [Parked("stream") EXCEPT !.watch_ns = ns])
    /\ cache_lock' = "free"
    /\ UNCHANGED <<pure_vars, dry_run, api_vars, policies, processed_pods,
                   reconciled_pods, env_events>>

\* the pod stream times out and watch_pods opens it again
stream_timeout(w) ==
    /\ w = WW
    /\ local[w].pc = "stream"
    /\ SetLocal(w, Parked("get_target_namespaces"))
    /\ UNCHANGED <<pure_vars, dry_run, api_vars, policies, cache_lock, processed_pods,
                   reconciled_pods, env_events>>

\* the pod stream: an ADDED or MODIFIED event of a live pod of the watched
\* namespace reaches handle_pod_event
PodEvent(w) ==
    /\ w = WW
    /\ local[w].pc = "stream"
    /\ \E pod \in cluster :
          /\ local[w].watch_ns = "" \/ pod.namespace = local[w].watch_ns
          /\ \/ ProcessedKey(pod) \in processed_pods
             \/ Cardinality(processed_pods) < MaxProcessed
          /\ SetLocal(w, [local[w] EXCEPT !.pc = "check_processed", !.pod = pod])
    /\ UNCHANGED <<pure_vars, dry_run, api_vars, policies, cache_lock, processed_pods,
                   reconciled_pods, env_events>>

\* handle_pod_event: `if pod_key in self._processed_pods: return`
check_processed(w) ==
    /\ local[w].pc = "check_processed"
    /\ SetLocal(w, IF ProcessedKey(local[w].pod) \in processed_pods
                   THEN Rest(w)
                   ELSE [local[w] EXCEPT !.pc = "find_matching_policy"])
    /\ UNCHANGED <<pure_vars, dry_run, api_vars, policies, cache_lock, processed_pods,
                   reconciled_pods, env_events>>

\* handle_pod_event: PolicyCache.find_matching_policy
find_matching_policy(w) ==
    /\ local[w].pc = "find_matching_policy"
    /\ cache_lock = w
    /\ LET found == FirstMatching(policies, local[w].pod)
       IN SetLocal(w, IF found = <<>> THEN Rest(w)
                      ELSE [local[w] EXCEPT !.pc = "mark_processed", !.policy = found[1]])
    /\ cache_lock' = "free"
    /\ UNCHANGED <<pure_vars, dry_run, api_vars, policies, processed_pods,
                   reconciled_pods, env_events>>

\* handle_pod_event: self._processed_pods.add(pod_key), then reconcile_pod if
\* needs_reconciliation
mark_processed(w) ==
    /\ local[w].pc = "mark_processed"
    /\ processed_pods' = processed_pods \cup {ProcessedKey(local[w].pod)}
    /\ SetLocal(w, IF needs_reconciliation(local[w].pod, local[w].policy)
                   THEN [local[w] EXCEPT !.pc = "reconcile_pod",
                                         !.todo = <<local[w].pod>>, !.results = <<>>]
                   ELSE Rest(w))
    /\ UNCHANGED <<pure_vars, dry_run, api_vars, policies, cache_lock, reconciled_pods,
                   env_events>>

\* self._stop_event.is_set(): the main thread has passed its set() call
stop_event_is_set == local["caller"].pc = "stop_set"

\* periodic_reconcile, after the sleep: break if the stop event is set, else
\* self._processed_pods.clear()
clear_processed(w) ==
    /\ local[w].pc = "clear_processed"
    /\ processed_pods' = IF stop_event_is_set THEN processed_pods ELSE {}
    /\ SetLocal(w, IF stop_event_is_set THEN Parked("terminated") ELSE Parked("get_all"))
    /\ UNCHANGED <<pure_vars, dry_run, api_vars, policies, cache_lock, reconciled_pods,
                   env_events>>

get_all_unlocked(w) ==
    /\ local[w].pc = "get_all"
    /\ SetLocal(w, [Parked("next_policy") EXCEPT !.pol_todo = policies])
    /\ cache_lock' = IF cache_lock = w THEN "free" ELSE cache_lock
    /\ UNCHANGED <<pure_vars, dry_run, api_vars, policies, processed_pods,
                   reconciled_pods, env_events>>

get_all_nothing(w) ==
    /\ local[w].pc = "get_all"
    /\ cache_lock = w
    /\ SetLocal(w, Parked("next_policy"))
    /\ cache_lock' = "free"
    /\ UNCHANGED <<pure_vars, dry_run, api_vars, policies, processed_pods,
                   reconciled_pods, env_events>>

\* periodic_reconcile: PolicyCache.get_all, a copy of the cached policies
get_all(w) ==
    /\ local[w].pc = "get_all"
    /\ cache_lock = w
    /\ SetLocal(w, [Parked("next_policy") EXCEPT !.pol_todo = policies])
    /\ cache_lock' = "free"
    /\ UNCHANGED <<pure_vars, dry_run, api_vars, policies, processed_pods,
                   reconciled_pods, env_events>>

next_policy_any(w) ==
    /\ local[w].pc = "next_policy"
    /\ SetLocal(w,
          IF local[w].pol_todo = <<>> THEN Parked("clear_processed")
          ELSE [local[w] EXCEPT !.pc = "list_pods", !.policy = Head(local[w].pol_todo),
                                !.pol_todo = Tail(@)])
    /\ UNCHANGED <<pure_vars, dry_run, api_vars, policies, cache_lock, processed_pods,
                   reconciled_pods, env_events>>

\* periodic_reconcile: the loop over the copy; a disabled policy is skipped
next_policy(w) ==
    /\ local[w].pc = "next_policy"
    /\ SetLocal(w,
          IF local[w].pol_todo = <<>> THEN Parked("clear_processed")
          ELSE IF ~Head(local[w].pol_todo).enabled
               THEN [local[w] EXCEPT !.pol_todo = Tail(@)]
               ELSE [local[w] EXCEPT !.pc = "list_pods", !.policy = Head(local[w].pol_todo),
                                     !.pol_todo = Tail(@)])
    /\ UNCHANGED <<pure_vars, dry_run, api_vars, policies, cache_lock, processed_pods,
                   reconciled_pods, env_events>>

\* someone else replaces a pod by one with other resources (a new uid)
ExternalPodChange ==
    /\ env_events > 0
    /\ \E pod \in cluster, requirements \in PodRequirements :
          /\ requirements # pod.containers[1]
          /\ cluster' = (cluster \ {pod}) \cup
                {[pod EXCEPT !.uid = FreshUid, !.annotations = NoAnnotations,
                             !.containers = [i \in DOMAIN pod.containers |-> requirements]]}
    /\ env_events' = env_events - 1
    /\ UNCHANGED <<pure_vars, dry_run, api_policies, policy_status, policies, cache_lock,
                   processed_pods, reconciled_pods, local>>

\* the steps a thread takes on its own, once it has its input
ThreadStep(w) ==
    \/ add_or_update(w)
    \/ remove(w)
    \/ list_pods(w)
    \/ reconcile_loop_end(w)
    \/ reconcile_pod(w)
    \/ delete_namespaced_pod(w)
    \/ create_namespaced_pod(w)
    \/ update_policy_status(w)
    \/ get_target_namespaces(w)
    \/ check_processed(w)
    \/ find_matching_policy(w)
    \/ mark_processed(w)
    \/ clear_processed(w)
    \/ get_all(w)
    \/ next_policy(w)

----------------------------------------------------------------------------
(* Spec: the controller after PodResourceController.run has loaded the      *)
(* existing policies and started its three threads                          *)

\* load_existing_policies: the listed objects, parsed, in list order
LoadedPolicies(objects) ==
    LET listed == SelectSeq(<<PolA, PolAOff, PolB>>, LAMBDA o : o \in objects)
    IN [i \in DOMAIN listed |-> from_crd(listed[i])]

StartedThreads ==
    [w \in Threads |->
        CASE w = PW -> Parked("watch")
          [] w = WW -> Parked("get_target_namespaces")
          [] w = PR -> Parked("clear_processed")
          [] OTHER -> Parked("parked")]

Init ==
    /\ HarnessIdle
    /\ dry_run \in BOOLEAN
    /\ cluster \in {{WebPod(r)} : r \in PodRequirements}
    /\ api_policies \in {{PolA}}
    /\ policy_status = [k \in PolicyKeys |-> NoStatus]
    /\ policies = LoadedPolicies(api_policies)
    /\ cache_lock = "free"
    /\ processed_pods = {}
    /\ reconciled_pods = {}
    /\ local = StartedThreads
    /\ env_events = MaxEnvEvents

Next ==
    \/ \E w \in Workers :
          \/ LockAcquire(w)
          \/ PolicyEvent(w)
          \/ PolicyRelist(w)
          \/ PodEvent(w)
          \/ stream_timeout(w)
          \/ ThreadStep(w)
    \/ ExternalPodChange

Spec == Init /\ [][Next]_vars

\* the keys of the pods the cluster starts with
ClusterKeys == {PodKey(WebPod(r)) : r \in PodRequirements}

\* the thread has issued the delete of a reconcile attempt and its create has
\* not returned yet
InReplace(w) == local[w].pc = "create"

\* C5: at most one reconcile attempt for a workload (namespace/name) is between
\* the start of its delete step and the end of its create step at any time.
C5_PerWorkloadMutex ==
    \A w1 \in Workers, w2 \in Workers :
        (w1 # w2 /\ InReplace(w1) /\ InReplace(w2)) =>
            PodKey(local[w1].pod) # PodKey(local[w2].pod)

\* the steps of handle_pod_event and periodic_reconcile on self._processed_pods
DedupOps == {"check_processed", "mark_processed", "clear_processed"}

\* C6: every membership test, add and clear of the dedup set is made by a
\* worker that holds the mutual-exclusion lock while it makes it.
C6_DedupUnderLock ==
    [][\A w \in Workers :
          (local[w].pc \in DedupOps /\ local'[w] # local[w]) => cache_lock = w]_vars

\* C10: in dry-run mode no worker ever issues a delete or a create, every pod
\* stays as it was (never removed, never one the controller built), and a
\* drifted workload yields the result `dry-run`.
C10_DryRunNeverMutates ==
    dry_run =>
        /\ \A w \in Workers :
              /\ local[w].pc \notin {"delete", "create"}
              /\ local[w].n_delete = 0
              /\ local[w].n_create = 0
              /\ (local[w].status # "" /\ needs_reconciliation(local[w].pod, local[w].policy))
                    => local[w].status = "dry-run"
              /\ \A i \in DOMAIN local[w].results :
                    local[w].results[i].status \in {"compliant", "dry-run"}
        /\ {PodKey(p) : p \in cluster} = ClusterKeys
        /\ \A p \in cluster : p.annotations = NoAnnotations
        /\ reconciled_pods = {}

\* dry-run, after a policy event: a drifted pod got the result `dry-run`
C10_Witness ==
    /\ dry_run
    /\ env_events < MaxEnvEvents
    /\ \E w \in Workers :
          /\ local[w].status = "dry-run"
          /\ needs_reconciliation(local[w].pod, local[w].policy)
          /\ LivePod(PodKey(local[w].pod)) = local[w].pod

\* the statuses reconcile_pod ends an attempt with
Terminal == {"compliant", "dry-run", "reconciled", "error"}

\* the thread is inside an attempt: past the evaluation, not yet at a result
InAttempt(w) == local[w].pc \in {"delete", "create"}

\* C11, the shape of one attempt: at most one delete and one create, a create
\* only after the delete of the same attempt succeeded or returned not-found,
\* and the calls each terminal status stands for
AttemptShape(w) ==
    /\ local[w].n_delete <= 1
    /\ local[w].n_create <= 1
    /\ local[w].n_create = 1 => local[w].n_delete = 1
    /\ local[w].pc = "create" =>
          (local[w].n_delete = 1 /\ local[w].n_create = 0
           /\ local[w].deleted \in {"ok", "404"})
    /\ local[w].pc = "delete" => (local[w].n_delete = 0 /\ local[w].n_create = 0)
    /\ InAttempt(w) <=> local[w].status = "unchanged"
    /\ local[w].status \in Terminal \cup {"", "unchanged"}
    /\ local[w].status \in {"compliant", "dry-run"} =>
          (local[w].n_delete = 0 /\ local[w].n_create = 0)
    /\ local[w].status = "reconciled" => (local[w].n_delete = 1 /\ local[w].n_create = 1)
    /\ local[w].status = "error" => local[w].n_delete = 1

\* an attempt that has ended has one result, and its status stays as it is
\* until the thread enters the next attempt or leaves the pass
AttemptEndsOnce(w) ==
    /\ (local[w].status \notin Terminal /\ local'[w].status \in Terminal) =>
          local'[w].results = Append(local[w].results,
                                     Result(local'[w].pod, local'[w].status))
    /\ (local[w].status \in Terminal /\ local'[w] # local[w]) =>
          \/ local[w].pc = "reconcile_pod" /\ local[w].todo # <<>>
          \/ local'[w].status \in {"", local[w].status}
                /\ local'[w].n_delete \in {0, local[w].n_delete}
                /\ local'[w].n_create \in {0, local[w].n_create}

\* C11: every reconcile attempt follows evaluate -> {compliant | dry-run |
\* delete -> settle -> create -> {reconciled | error} | error (delete failed)}:
\* at most one delete and at most one create, a create only after the delete
\* of the same attempt succeeded or returned not-found, and exactly one
\* terminal status.
C11_AttemptStateMachine ==
    /\ [](\A w \in Workers : AttemptShape(w))
    /\ [][\A w \in Workers : AttemptEndsOnce(w)]_vars

\* an attempt that went the whole way: one delete, one create, `reconciled`
C11_Witness ==
    \E w \in Workers :
        /\ local[w].status = "reconciled"
        /\ local[w].n_delete = 1
        /\ local[w].n_create = 1
        /\ local[w].results # <<>>

\* C12: a not-found (404) on delete is passed over and the attempt goes on to
\* the create step; any other delete error ends the attempt with status
\* `error` and no create.
C12_DeleteErrors ==
    /\ [](\A w \in Workers : local[w].deleted = "error" =>
             (local[w].status = "error" /\ local[w].n_create = 0 /\ ~InAttempt(w)))
    /\ [][\A w \in Workers :
            (local[w].pc = "delete" /\ local'[w] # local[w]) =>
                IF env_events' < env_events
                THEN /\ local'[w].deleted = "error"
                     /\ local'[w].status = "error"
                     /\ local'[w].pc = "reconcile_pod"
                     /\ cluster' = cluster
                ELSE /\ local'[w].pc = "create"
                     /\ local'[w].status = "unchanged"
                     /\ (LivePod(PodKey(local[w].pod)) = NilPod
                            <=> local'[w].deleted = "404")]_vars

\* a delete found the pod gone (another thread had deleted it) and the
\* attempt is at its create step
C12_Witness ==
    \E w \in Workers : local[w].pc = "create" /\ local[w].deleted = "404"

\* the pod watcher has handled the pod's key and the set was not cleared since
Handled(pod) == ProcessedKey(pod) \in processed_pods

\* C14: once the pod watcher has handled a workload key (namespace, name,
\* uid), that workload is not processed again, by an event or by any other
\* worker (no evaluation, delete or create for it), until the periodic resync
\* clears the dedup set.
C14_DedupUntilCleared ==
    [][\A w \in Workers :
          /\ (local[w].pc = "check_processed" /\ local'[w] # local[w]
              /\ Handled(local[w].pod)) => local'[w].pc = "stream"
          /\ (w # WW /\ local[w].pc = "reconcile_pod" /\ local[w].todo # <<>>
              /\ local'[w] # local[w]) => ~Handled(Head(local[w].todo))
          /\ (w # WW /\ InAttempt(w) /\ local'[w] # local[w])
                => ~Handled(local[w].pod)]_vars

\* the keys PolicyCache._policies holds
CachedKeys == {PolicyKey(policies[i]) : i \in DOMAIN policies}

\* the step by which a worker goes from the evaluation of a pod to its delete
StartsReplace(w) ==
    /\ local[w].pc = "reconcile_pod"
    /\ local[w].todo # <<>>
    /\ local'[w].pc = "delete"

\* C15: once PolicyCache.remove has completed for a policy (and it was not
\* added again), no worker afterwards starts a delete/create of a workload on
\* behalf of that policy.
C15_RemovedPolicyNotEnforced ==
    [][\A w \in Workers :
          StartsReplace(w) => PolicyKey(local[w].policy) \in CachedKeys]_vars

\* the positions of a thread inside reconcile_all_pods_for_policy and the
\* status report that follows it
InPass == {"list_pods", "reconcile_pod", "delete", "create", "update_status"}

\* the policy is in the cache as the thread holds it
Cached(policy) == \E i \in DOMAIN policies : policies[i] = policy

\* C16: on an ADDED or MODIFIED policy event the policy watcher first upserts
\* the policy, then, only if the policy that results is enabled, runs
\* reconcile_all_pods_for_policy for it, and then reports status; for a
\* disabled one no workload is listed, deleted or created.
C16_PolicyEventOrder ==
    /\ [](local[PW].pc \in InPass =>
             (local[PW].policy.enabled /\ Cached(local[PW].policy)))
    /\ [][/\ (local[PW].pc = "add_or_update" /\ local'[PW] # local[PW]) =>
               LET policy == from_crd(local[PW].object)
               IN /\ policies' = Upsert(policies, policy)
                  /\ cluster' = cluster
                  /\ policy_status' = policy_status
                  /\ IF policy.enabled
                     THEN local'[PW].pc = "list_pods" /\ local'[PW].policy = policy
                     ELSE local'[PW].pc = "watch"
          /\ (local[PW].pc \in {"list_pods", "reconcile_pod"}
              /\ local'[PW].pc \notin {"list_pods", "reconcile_pod", "delete"}) =>
               local'[PW].pc = "update_status"
          /\ (local[PW].pc = "update_status" /\ local'[PW] # local[PW]) =>
               local'[PW].pc = "watch"]_vars

\* after a policy event the policy watcher has upserted the policy, replaced
\* a drifted pod, and is about to report the batch
C16_Witness ==
    /\ local[PW].pc = "update_status"
    /\ Cached(local[PW].policy)
    /\ \E i \in DOMAIN local[PW].results : local[PW].results[i].status = "reconciled"

\* C17: on a DELETED policy event the handler only removes the policy from
\* the store: no workload list, delete or create, no status patch, and every
\* workload, also one the policy reconciled earlier, stays as it is.
C17_PolicyDeletedOnlyRemoves ==
    [][(local[PW].pc = "remove" /\ local'[PW] # local[PW]) =>
          /\ policies' = Pop(policies, ObjectKey(local[PW].object))
          /\ local'[PW] = Parked("watch")
          /\ cluster' = cluster
          /\ policy_status' = policy_status
          /\ api_policies' = api_policies
          /\ processed_pods' = processed_pods
          /\ reconciled_pods' = reconciled_pods]_vars

\* polA replaced the pod, then was deleted and removed from the store; the
\* pod it built is still there
C17_Witness ==
    /\ local[PW].pc = "watch"
    /\ api_policies = {}
    /\ policies = <<>>
    /\ \E p \in cluster : p.annotations.managed_by = "polA"

\* C18: for every ADDED/MODIFIED pod event that is not deduplicated and whose
\* pod matches a stored policy, the pod watcher runs reconcile_pod for that
\* one pod and status-reports that one result, also when it is `compliant`.
C18_MatchedEventReported ==
    [][/\ (local[WW].pc = "mark_processed" /\ local'[WW] # local[WW]) =>
             /\ local'[WW].pc = "reconcile_pod"
             /\ local'[WW].todo = <<local[WW].pod>>
             /\ local'[WW].policy = local[WW].policy
       /\ (local[WW].pc = "reconcile_pod" /\ local[WW].todo = <<>>
           /\ local'[WW] # local[WW]) =>
             /\ local'[WW].pc = "update_status"
             /\ Len(local'[WW].results) = 1]_vars

\* C28: every policy store operation reads or writes the map only while it
\* holds the one store lock: the lock passes from free to one thread and back,
\* its holder is inside a store operation, the map changes only in a step of
\* the holder, and an operation takes effect in one step made with the lock
\* held, so that the calls of the three workers are linearizable.
C28_StoreOpsUnderLock ==
    /\ [](cache_lock # "free" => local[cache_lock].pc \in CacheOps)
    /\ [][/\ cache_lock' # cache_lock => (cache_lock = "free" \/ cache_lock' = "free")
          /\ policies' # policies =>
                /\ cache_lock \in Workers
                /\ local[cache_lock].pc \in {"add_or_update", "remove"}
                /\ local'[cache_lock] # local[cache_lock]
          /\ \A w \in Workers :
                (local[w].pc \in CacheOps /\ local'[w] # local[w]) =>
                   /\ cache_lock = w
                   /\ cache_lock' = "free"]_vars

\* the policy watcher holds the lock for its upsert while the other two
\* workers wait at the lock for a lookup and for get_all
C28_Witness ==
    /\ cache_lock = PW
    /\ local[PW].pc = "add_or_update"
    /\ local[WW].pc = "find_matching_policy"
    /\ local[PR].pc = "get_all"

----------------------------------------------------------------------------
(* SeqSpec: one caller runs reconcile_pod on the live pod, call after call,  *)
(* with nothing else touching the cluster                                    *)

\* calls of reconcile_pod the caller makes in a row
MaxCalls == 2

Caller == "caller"

\* limits of "100m" / "128Mi"
LimitsBoth == [cpu |-> CpuStr(100000, "m"), memory |-> MemStr(128, "Mi")]

SeqPolicies ==
    {MakePolicy("polA", "ns1", {"web"}, <<>>, "ns1",
                [requests |-> rq, limits |-> lm], TRUE) :
        rq \in Blocks, lm \in {NoBlock, LimitsCpu}}

SeqPods ==
    {MakePod("web", "ns1", 1, <<>>, <<Requirements(rq, lm), Requirements(rq, lm)>>) :
        rq \in Blocks, lm \in {NoBlock, LimitsCpu, LimitsBoth}}

SeqInit ==
    /\ HarnessIdle
    /\ dry_run \in BOOLEAN
    /\ cluster \in {{pod} : pod \in SeqPods}
    /\ api_policies = {}
    /\ policy_status = [k \in PolicyKeys |-> NoStatus]
    /\ policies \in {<<policy>> : policy \in SeqPolicies}
    /\ cache_lock = "free"
    /\ processed_pods = {}
    /\ reconciled_pods = {}
    /\ local = [w \in Threads |-> IF w = Caller THEN Parked("call") ELSE Parked("parked")]
    /\ env_events \in 0..MaxEnvEvents

\* reconcile_pod(pod, policy) is called with the live pod and its matching policy
CallReconcile(w) ==
    /\ w = Caller
    /\ local[w].pc \in {"call", "returned"}
    /\ local[w].calls < MaxCalls
    /\ \E pod \in cluster :
          /\ matches_pod(policies[1], pod)
          /\ SetLocal(w, [local[w] EXCEPT !.pc = "reconcile_pod", !.policy = policies[1],
                                          !.todo = <<pod>>, !.calls = @ + 1])
    /\ UNCHANGED <<pure_vars, dry_run, api_vars, policies, cache_lock, processed_pods,
                   reconciled_pods, env_events>>

SeqNext ==
    \/ CallReconcile(Caller)
    \/ reconcile_pod(Caller)
    \/ delete_namespaced_pod(Caller)
    \/ create_namespaced_pod(Caller)
    \/ reconcile_loop_end(Caller)

SeqSpec == SeqInit /\ [][SeqNext]_vars

\* the caller is back from its n-th call or a later one
Returned(n) == local[Caller].pc = "returned" /\ local[Caller].calls >= n

\* the status the caller's n-th call returned
StatusOf(n) == local[Caller].results[n].status

\* the call the caller is back from issued no delete and no create
NoMutation == local[Caller].n_delete = 0 /\ local[Caller].n_create = 0

\* C4 as stated: whatever the first call did, a second call on the resulting
\* live workload returns `compliant` and issues no delete and no create.
C4_SecondCallCompliant ==
    Returned(2) => (StatusOf(local[Caller].calls) = "compliant" /\ NoMutation)

\* C4, amended: a call that follows a call that ended `reconciled` or
\* `compliant` returns `compliant` and issues no delete and no create; in
\* dry-run mode a call that follows a `dry-run` call returns `dry-run` again,
\* also with no delete and no create.
C4_IdempotentAfterSuccess ==
    Returned(2) =>
        LET previous == StatusOf(local[Caller].calls - 1)
            last == StatusOf(local[Caller].calls)
        IN /\ previous \in {"reconciled", "compliant"} => (last = "compliant" /\ NoMutation)
           /\ previous = "dry-run" => (last = "dry-run" /\ NoMutation)

\* a first call that replaced the pod, then a second call on the new pod
C4_Witness ==
    /\ Returned(2)
    /\ StatusOf(local[Caller].calls - 1) = "reconciled"
    /\ StatusOf(local[Caller].calls) = "compliant"
    /\ LivePod(PodKey(local[Caller].pod)).annotations.managed_by = "polA"

\* C9: when needs_reconciliation(w, P) is false, reconcile_pod returns
\* `compliant`, issues no delete and no create, and leaves the workload as it was.
C9_CompliantNoMutation ==
    (Returned(1) /\ ~needs_reconciliation(local[Caller].pod, local[Caller].policy)) =>
        /\ StatusOf(local[Caller].calls) = "compliant"
        /\ local[Caller].status = "compliant"
        /\ NoMutation
        /\ cluster = {local[Caller].pod}

\* a first call on a pod with "0.1" cpu against a policy that asks for "100m"
C9_Witness ==
    /\ Returned(1)
    /\ local[Caller].calls = 1
    /\ ~dry_run
    /\ local[Caller].status = "compliant"
    /\ local[Caller].policy.resources.requests.cpu = CpuStr(100000, "m")
    /\ local[Caller].pod.containers[1].requests.cpu = CpuStr(100, "")

\* C13: a successful create yields `reconciled`; a create error yields
\* `error`, and the call returns without issuing a second create.
C13_CreateOutcome ==
    /\ [](\A w \in Threads : local[w].n_create <= 1)
    /\ [][\A w \in Threads :
            (local[w].pc = "create" /\ local'[w] # local[w]) =>
                LET key == PodKey(local[w].pod)
                    raised == env_events' < env_events \/ LivePod(key) # NilPod
                IN /\ local'[w].pc = "reconcile_pod"
                   /\ local'[w].n_create = 1
                   /\ local'[w].results =
                         Append(local[w].results, Result(local[w].pod, local'[w].status))
                   /\ IF raised
                      THEN local'[w].status = "error" /\ cluster' = cluster
                      ELSE /\ local'[w].status = "reconciled"
                           /\ key \in {PodKey(p) : p \in cluster'}
                           /\ key \in reconciled_pods']_vars

\* the create of the first call failed: `error`, one create, and the pod gone
C13_Witness ==
    /\ Returned(1)
    /\ local[Caller].calls = 1
    /\ local[Caller].status = "error"
    /\ local[Caller].n_delete = 1
    /\ local[Caller].n_create = 1
    /\ cluster = {}

----------------------------------------------------------------------------
(* LiveSpec: the controller applying one enabled policy that stays as it is, *)
(* every thread scheduled fairly; the only thing the environment does to it  *)
(* is an API call that fails                                                  *)

LiveInit ==
    /\ HarnessIdle
    /\ dry_run = FALSE
    /\ cluster \in {{WebPod(r)} : r \in PodRequirements}
    /\ api_policies = {PolA}
    /\ policy_status = [k \in PolicyKeys |-> NoStatus]
    /\ policies = LoadedPolicies(api_policies)
    /\ cache_lock = "free"
    /\ processed_pods = {}
    /\ reconciled_pods = {}
    /\ local = StartedThreads
    /\ env_events \in 0..MaxEnvEvents

\* ThreadStep without the handling of a DELETED policy event
LiveStep(w) ==
    \/ add_or_update(w)
    \/ list_pods(w)
    \/ reconcile_loop_end(w)
    \/ reconcile_pod(w)
    \/ delete_namespaced_pod(w)
    \/ create_namespaced_pod(w)
    \/ update_policy_status(w)
    \/ get_target_namespaces(w)
    \/ check_processed(w)
    \/ find_matching_policy(w)
    \/ mark_processed(w)
    \/ clear_processed(w)
    \/ get_all(w)
    \/ next_policy(w)

LiveNext ==
    \E w \in Workers :
        \/ LockAcquire(w)
        \/ PolicyRelist(w)
        \/ PodEvent(w)
        \/ stream_timeout(w)
        \/ LiveStep(w)

\* a thread that can take a step takes one, and a thread that keeps finding
\* the lock free gets it; whether a stream delivers anything is left open
Fairness ==
    \A w \in Workers :
        /\ WF_vars(LiveStep(w))
        /\ SF_vars(LockAcquire(w))

LiveSpec == LiveInit /\ [][LiveNext]_vars /\ Fairness

\* the pod `web` is live and differs from what polA declares
Drifted ==
    /\ LivePod(PodKey(WebPod(NoResources))) # NilPod
    /\ needs_reconciliation(LivePod(PodKey(WebPod(NoResources))), from_crd(PolA))

\* the pod `web` is live and carries what polA declares
Desired ==
    /\ LivePod(PodKey(WebPod(NoResources))) # NilPod
    /\ ~needs_reconciliation(LivePod(PodKey(WebPod(NoResources))), from_crd(PolA))

\* a reconcile attempt of some worker has ended in `error`
ErrorEnded == \E w \in Workers : local[w].status = "error"

\* C7: after a reconcile attempt ends in `error`, with the policy enabled and
\* every later API call succeeding, the workload eventually exists again
\* carrying the policy's desired resources.
C7_ErrorIsRetried == (ErrorEnded /\ env_events = 0) ~> Desired

\* C8: a drifted workload of an enabled policy, with API calls succeeding and
\* the controller not in dry-run mode, eventually carries the policy's desired
\* resources.
C8_DriftIsHealed == (Drifted /\ env_events = 0 /\ ~dry_run) ~> Desired

\* the periodic resync, and no pod event, replaced the drifted pod
C8_Witness ==
    /\ Desired
    /\ local[PR].status = "reconciled"
    /\ processed_pods = {}
    /\ local[WW].pc \in {"get_target_namespaces", "stream"}
    /\ LivePod(PodKey(WebPod(NoResources))).annotations.original_resources
          = serialize_resources(get_pod_resources(WebPod(Requirements(RequestsLow, NoBlock))))

----------------------------------------------------------------------------
(* PodWatchSpec: the pod watcher alone on its stream, which also delivers    *)
(* the DELETED event of a pod that is gone                                   *)

\* pods that were live and are not any more: not in the cluster, and older
\* than every pod that is
GonePods ==
    {p \in {WebPod(r) : r \in PodRequirements} :
        p \notin cluster /\ \A q \in cluster : q.uid > p.uid}

handle_pod_event_deleted_as_added(w) ==
    /\ w = WW
    /\ local[w].pc = "stream"
    /\ \E pod \in GonePods :
          /\ arg_pod' = pod
          /\ ret' = [fn |-> "handle_pod_event", bool |-> FALSE, status |-> "DELETED"]
          /\ SetLocal(w, [local[w] EXCEPT !.pc = "check_processed", !.pod = pod])
    /\ UNCHANGED <<arg_policy, dry_run, api_vars, policies, cache_lock, processed_pods,
                   reconciled_pods, env_events>>

\* the pod stream delivers DELETED and handle_pod_event returns at once:
\* `if event_type == "DELETED": return`.  arg_pod and ret keep the call made.
handle_pod_event_deleted(w) ==
    /\ w = WW
    /\ local[w].pc = "stream"
    /\ \E pod \in GonePods :
          /\ arg_pod' = pod
          /\ ret' = [fn |-> "handle_pod_event", bool |-> FALSE, status |-> "DELETED"]
    /\ UNCHANGED <<arg_policy, dry_run, ctl_vars>>

PodWatchInit ==
    /\ HarnessIdle
    /\ dry_run \in BOOLEAN
    /\ cluster \in {{WebPod(r)} : r \in PodRequirements}
    /\ api_policies \in {{PolA}, {PolAOff}}
    /\ policy_status = [k \in PolicyKeys |-> NoStatus]
    /\ policies = LoadedPolicies(api_policies)
    /\ cache_lock = "free"
    /\ processed_pods = {}
    /\ reconciled_pods = {}
    /\ local = [w \in Threads |->
                  IF w = WW THEN Parked("get_target_namespaces") ELSE Parked("parked")]
    /\ env_events \in 0..MaxEnvEvents

PodWatchNext ==
    \/ LockAcquire(WW)
    \/ get_target_namespaces(WW)
    \/ stream_timeout(WW)
    \/ PodEvent(WW)
    \/ handle_pod_event_deleted(WW)
    \/ check_processed(WW)
    \/ find_matching_policy(WW)
    \/ mark_processed(WW)
    \/ reconcile_pod(WW)
    \/ delete_namespaced_pod(WW)
    \/ create_namespaced_pod(WW)
    \/ reconcile_loop_end(WW)
    \/ update_policy_status(WW)

PodWatchSpec == PodWatchInit /\ [][PodWatchNext]_vars

\* handle_pod_event was called with a DELETED event in this step
DeletedHandled ==
    /\ ret'.fn = "handle_pod_event"
    /\ ret'.status = "DELETED"
    /\ <<arg_pod, ret>>' # <<arg_pod, ret>>

\* C19: a DELETED pod event is ignored: handle_pod_event leaves the dedup set
\* and the policy store as they are and issues no delete, create or status
\* patch.
C19_PodDeletedIgnored ==
    [][DeletedHandled =>
          /\ processed_pods' = processed_pods
          /\ policies' = policies
          /\ cluster' = cluster
          /\ policy_status' = policy_status
          /\ api_policies' = api_policies
          /\ local' = local
          /\ cache_lock' = cache_lock]_vars

\* the watcher replaced the pod, then got the DELETED event of the old one,
\* whose key it had put in the dedup set
C19_Witness ==
    /\ ret.fn = "handle_pod_event"
    /\ ret.status = "DELETED"
    /\ ProcessedKey(arg_pod) \in processed_pods
    /\ arg_pod \notin cluster
    /\ local[WW].pc = "stream"
    /\ \E p \in cluster : PodKey(p) = PodKey(arg_pod) /\ p.annotations.managed_by = "polA"

----------------------------------------------------------------------------
(* ResyncSpec: the periodic reconciler alone, over a store of up to two      *)
(* policies of which one may be disabled                                     *)

ResyncKeys == {ObjectKey(o) : o \in {PolA, PolAOff, PolB}}

\* the pod watcher may have handled the pod before the first cycle starts
ResyncInit ==
    /\ HarnessIdle
    /\ dry_run \in BOOLEAN
    /\ cluster \in {{WebPod(r)} : r \in PodRequirements}
    /\ api_policies \in {{PolA, PolB}, {PolAOff, PolB}, {PolB}, {PolAOff}}
    /\ policy_status = [k \in ResyncKeys |-> NoStatus]
    /\ policies = LoadedPolicies(api_policies)
    /\ cache_lock = "free"
    /\ processed_pods \in {{}, {ProcessedKey(pod) : pod \in cluster}}
    /\ reconciled_pods = {}
    /\ local = [w \in Threads |->
                  IF w = PR THEN Parked("clear_processed") ELSE Parked("parked")]
    /\ env_events = MaxEnvEvents

ResyncNext ==
    \/ LockAcquire(PR)
    \/ clear_processed(PR)
    \/ get_all(PR)
    \/ next_policy(PR)
    \/ list_pods(PR)
    \/ reconcile_loop_end(PR)
    \/ reconcile_pod(PR)
    \/ delete_namespaced_pod(PR)
    \/ create_namespaced_pod(PR)
    \/ update_policy_status(PR)

ResyncSpec == ResyncInit /\ [][ResyncNext]_vars

\* the policies of the snapshot the cycle has dealt with so far
SnapshotDone == SubSeq(policies, 1, Len(policies) - Len(local[PR].pol_todo))

\* the cycle's position: the dedup set was cleared before anything else, the
\* policies still to visit are the tail of the snapshot, and the batch under
\* way is that of the enabled policy just taken from it
CycleShape ==
    LET f == local[PR]
    IN /\ f.pc # "clear_processed" => processed_pods = {}
       /\ f.pc \in InPass \cup {"next_policy"} =>
             /\ Len(f.pol_todo) <= Len(policies)
             /\ f.pol_todo = SubSeq(policies, Len(policies) - Len(f.pol_todo) + 1,
                                    Len(policies))
       /\ f.pc \in InPass =>
             /\ f.policy.enabled
             /\ SnapshotDone # <<>>
             /\ f.policy = SnapshotDone[Len(SnapshotDone)]

\* one step of the cycle
CycleStep ==
    LET f == local[PR]
        g == local'[PR]
        key == PolicyKey(f.policy)
    IN /\ (f.pc = "clear_processed" /\ g # f) =>
             /\ processed_pods' = {}
             /\ g.pc = "get_all"
             /\ cluster' = cluster
             /\ policy_status' = policy_status
       /\ (f.pc = "get_all" /\ g # f) =>
             /\ g.pc = "next_policy"
             /\ g.pol_todo = policies
       /\ (f.pc = "next_policy" /\ g # f /\ f.pol_todo # <<>>) =>
             /\ g.pol_todo = Tail(f.pol_todo)
             /\ IF Head(f.pol_todo).enabled
                THEN g.pc = "list_pods" /\ g.policy = Head(f.pol_todo)
                ELSE g.pc = "next_policy"
       /\ (f.pc = "next_policy" /\ g # f /\ f.pol_todo = <<>>) =>
             g.pc = "clear_processed"
       /\ g.pc = "list_pods" => f.pc \in {"list_pods", "next_policy"}
       /\ f.pc \in InPass => g.pol_todo = f.pol_todo /\ g.pc \in InPass \cup {"next_policy"}
       /\ (f.pc \in InPass /\ g.pc = "next_policy") =>
             /\ f.pc = "update_status"
             /\ (f.results # <<>> /\ key \in ApiPolicyKeys) =>
                   policy_status'[key].managedPods = f.results
             /\ \A k \in ResyncKeys \ {key} : policy_status'[k] = policy_status[k]

\* at the end of a cycle in which no API call failed, every enabled policy of
\* the snapshot has the status of its batch and no disabled one has any
CycleEnd ==
    (local[PR].pc = "next_policy" /\ local[PR].pol_todo = <<>>
       /\ env_events = MaxEnvEvents) =>
          \A i \in DOMAIN policies :
             LET status == policy_status[PolicyKey(policies[i])]
             IN IF policies[i].enabled
                THEN Len(status.managedPods) = 1 /\ status.phase = "Reconciled"
                ELSE status = NoStatus

\* C20: each periodic resync cycle clears the dedup key set before any
\* reconcile of that cycle, then calls reconcile_all_pods_for_policy exactly
\* once for every policy that is enabled in the store snapshot and never for a
\* disabled one, status-reporting each batch.
C20_ResyncCycle ==
    /\ [](CycleShape /\ CycleEnd)
    /\ [][CycleStep]_vars

\* a cycle over polA and polB ends with both batches reported, the pod
\* replaced once for each
C20_Witness ==
    /\ local[PR].pc = "next_policy"
    /\ local[PR].pol_todo = <<>>
    /\ Len(policies) = 2
    /\ \A i \in DOMAIN policies :
          /\ policies[i].enabled
          /\ Len(policy_status[PolicyKey(policies[i])].managedPods) = 1
          /\ policy_status[PolicyKey(policies[i])].managedPods[1].status = "reconciled"
    /\ processed_pods = {}

----------------------------------------------------------------------------
(* WatchNsSpec: the pod watcher alone, with policies that target two         *)
(* namespaces and a pod in each                                              *)

\* polC: pod db of ns2 by name, target namespace defaulted to its own
PolC ==
    [metadata |-> [name |-> "polC", namespace |-> "ns2"],
     spec |-> [targetPods |-> [names |-> {"db"}],
               resources |-> [requests |-> RequestsHigh, limits |-> NoBlock]]]

DbPod(requirements) ==
    MakePod("db", "ns2", 2, [app |-> "bar"], <<requirements>>)

WatchNsLoaded(objects) ==
    LET listed == SelectSeq(<<PolA, PolC>>, LAMBDA o : o \in objects)
    IN [i \in DOMAIN listed |-> from_crd(listed[i])]

WatchNsInit ==
    /\ HarnessIdle
    /\ dry_run \in BOOLEAN
    /\ cluster \in {{WebPod(r), DbPod(q)} : r \in PodRequirements, q \in PodRequirements}
    /\ api_policies \in SUBSET {PolA, PolC}
    /\ policy_status = [k \in {ObjectKey(PolA), ObjectKey(PolC)} |-> NoStatus]
    /\ policies = WatchNsLoaded(api_policies)
    /\ cache_lock = "free"
    /\ processed_pods = {}
    /\ reconciled_pods = {}
    /\ local = [w \in Threads |->
                  IF w = WW THEN Parked("get_target_namespaces") ELSE Parked("parked")]
    /\ env_events \in 0..MaxEnvEvents

WatchNsNext ==
    \/ LockAcquire(WW)
    \/ get_target_namespaces(WW)
    \/ stream_timeout(WW)
    \/ PodEvent(WW)
    \/ check_processed(WW)
    \/ find_matching_policy(WW)
    \/ mark_processed(WW)
    \/ reconcile_pod(WW)
    \/ delete_namespaced_pod(WW)
    \/ create_namespaced_pod(WW)
    \/ reconcile_loop_end(WW)
    \/ update_policy_status(WW)

WatchNsSpec == WatchNsInit /\ [][WatchNsNext]_vars

\* the open stream delivers the events of this namespace
Observed(namespace) ==
    local[WW].watch_ns = "" \/ local[WW].watch_ns = namespace

\* C21: the pod watcher's stream observes every namespace that
\* get_target_namespaces returns, so that a pod event in any target namespace
\* of an enabled policy reaches handle_pod_event; with no target namespace it
\* observes all namespaces.
C21_WatchCoversTargets ==
    local[WW].pc = "stream" =>
        IF TargetNamespaces(policies) = {}
        THEN local[WW].watch_ns = ""
        ELSE \A namespace \in TargetNamespaces(policies) : Observed(namespace)

----------------------------------------------------------------------------
(* StatusSpec: _update_policy_status applied to every batch of up to         *)
(* MaxBatch results                                                          *)

MaxBatch == 2

ResultDicts ==
    [name : PodNames, namespace : {"ns1"}, status : Terminal, lastUpdated : {0, 1}]

Batches == UNION {[1..n -> ResultDicts] : n \in 0..MaxBatch}

\* the policy object is there, or was deleted before the report
StatusInit ==
    /\ HarnessIdle
    /\ dry_run = FALSE
    /\ cluster = {}
    /\ api_policies \in {{PolA}, {}}
    /\ policy_status = [k \in PolicyKeys |-> NoStatus]
    /\ policies = <<from_crd(PolA)>>
    /\ cache_lock = "free"
    /\ processed_pods = {}
    /\ reconciled_pods = {}
    /\ \E batch \in Batches :
          local = [w \in Threads |->
                     IF w = Caller
                     THEN [Parked("update_status") EXCEPT !.policy = from_crd(PolA),
                                                          !.results = batch]
                     ELSE Parked("parked")]
    /\ env_events = 0

StatusNext == update_policy_status(Caller)

StatusSpec == StatusInit /\ [][StatusNext]_vars

\* the status patched for polA, the batch the caller reported
Patched == policy_status[ObjectKey(PolA)]

Batch == local[Caller].results

\* C22: the status report has phase Error if and only if some result of the
\* batch has status error, and Reconciled otherwise; its managedPods list has
\* one entry per result, in order, with the result's name, namespace, status
\* and timestamp.
C22_StatusReport ==
    (local[Caller].pc = "returned" /\ Batch # <<>> /\ api_policies # {}) =>
        /\ Patched.phase = "Error" <=> \E i \in DOMAIN Batch : Batch[i].status = "error"
        /\ Patched.phase # "Error" => Patched.phase = "Reconciled"
        /\ Len(Patched.managedPods) = Len(Batch)
        /\ \A i \in DOMAIN Batch :
              /\ Patched.managedPods[i].name = Batch[i].name
              /\ Patched.managedPods[i].namespace = Batch[i].namespace
              /\ Patched.managedPods[i].status = Batch[i].status
              /\ Patched.managedPods[i].lastUpdated = Batch[i].lastUpdated

\* a batch whose first result is the error and whose last is not
C22_Witness ==
    /\ local[Caller].pc = "returned"
    /\ Len(Batch) = 2
    /\ Batch[1].status = "error"
    /\ Batch[2].status = "reconciled"
    /\ Batch[1].name # Batch[2].name
    /\ Patched.phase = "Error"
    /\ Patched.managedPods[2].status = "reconciled"

\* C36: no status is patched for an empty batch, and none for a policy whose
\* object is gone when the report is made; the policy objects and their
\* statuses stay as they were and the report returns normally.
C36_StatusPatchGuard ==
    [][(local[Caller].pc = "update_status" /\ (Batch = <<>> \/ api_policies = {})) =>
          /\ policy_status' = policy_status
          /\ api_policies' = api_policies
          /\ local'[Caller].pc = "returned"]_vars

\* a batch of two results was reported for polA after its object was deleted
C36_Witness ==
    /\ local[Caller].pc = "returned"
    /\ Len(Batch) = 2
    /\ local[Caller].policy = from_crd(PolA)
    /\ api_policies = {}
    /\ Patched = NoStatus

----------------------------------------------------------------------------
(* PassSpec: one call of reconcile_all_pods_for_policy, over a namespace     *)
(* with two pods                                                             *)

\* pod db of ns1, labelled app=bar: polA names it, polB's selector does not
\* select it
Ns1Db(requirements) ==
    MakePod("db", "ns1", 2, [app |-> "bar"], <<requirements>>)

PassPolicies == {from_crd(PolA), from_crd(PolAOff), from_crd(PolB)}

PassInit ==
    /\ HarnessIdle
    /\ dry_run \in BOOLEAN
    /\ cluster \in {{WebPod(r), Ns1Db(q)} : r \in PodRequirements, q \in PodRequirements}
    /\ api_policies = {}
    /\ policy_status = [k \in PolicyKeys |-> NoStatus]
    /\ policies = <<>>
    /\ cache_lock = "free"
    /\ processed_pods = {}
    /\ reconciled_pods = {}
    /\ \E policy \in PassPolicies :
          local = [w \in Threads |->
                     IF w = Caller
                     THEN [Parked("list_pods") EXCEPT !.policy = policy]
                     ELSE Parked("parked")]
    /\ env_events = MaxEnvEvents

PassNext ==
    \/ list_pods(Caller)
    \/ reconcile_pod(Caller)
    \/ delete_namespaced_pod(Caller)
    \/ create_namespaced_pod(Caller)
    \/ reconcile_loop_end(Caller)

PassSpec == PassInit /\ [][PassNext]_vars

\* C23: reconcile_all_pods_for_policy on a disabled policy returns an empty
\* result list and makes no API call: no list, no delete, no create.
C23_DisabledPassIsNoop ==
    /\ [](~local[Caller].policy.enabled =>
             /\ local[Caller].pc \in {"list_pods", "returned"}
             /\ local[Caller].results = <<>>
             /\ local[Caller].n_delete = 0
             /\ local[Caller].n_create = 0)
    /\ [][(~local[Caller].policy.enabled /\ local[Caller].pc = "list_pods") =>
             /\ local'[Caller].pc = "returned"
             /\ local'[Caller].results = <<>>
             /\ cluster' = cluster
             /\ env_events' = env_events
             /\ reconciled_pods' = reconciled_pods]_vars

\* the call on disabled polA has returned while an API call could have failed
C23_Witness ==
    /\ local[Caller].pc = "returned"
    /\ ~local[Caller].policy.enabled
    /\ local[Caller].results = <<>>
    /\ env_events > 0
    /\ Cardinality(cluster) = 2

RECURSIVE Names(_)
Names(items) == IF items = <<>> THEN <<>> ELSE <<Head(items).name>> \o Names(Tail(items))

\* the names of the pods of ns1, in list order, that the policy matches
MatchingNames(policy) ==
    Names(SelectSeq(<<Ns1Db(Requirements(NoBlock, NoBlock)),
                      WebPod(Requirements(NoBlock, NoBlock))>>,
                    LAMBDA p : matches_pod(policy, p)))

\* C24: reconcile_all_pods_for_policy reconciles each matching pod on its
\* own: a delete or create error on one pod does not end the pass, and the
\* list returned has exactly one result for every pod listed in the target
\* namespace that matches the policy, and none for a pod that does not.
C24_OneResultPerMatch ==
    /\ [](local[Caller].pc = "returned" =>
             IF local[Caller].results # <<>>
             THEN Names(local[Caller].results) = MatchingNames(local[Caller].policy)
             ELSE \/ MatchingNames(local[Caller].policy) = <<>>
                  \/ env_events < MaxEnvEvents)
    /\ [][(local[Caller].pc \in {"delete", "create"} /\ local'[Caller].status = "error") =>
             /\ local'[Caller].pc = "reconcile_pod"
             /\ local'[Caller].todo = local[Caller].todo
             /\ local'[Caller].results =
                   Append(local[Caller].results, Result(local[Caller].pod, "error"))]_vars

\* the delete or create of the first pod failed and the second pod was
\* reconciled all the same
C24_Witness ==
    /\ local[Caller].pc = "returned"
    /\ Len(local[Caller].results) = 2
    /\ local[Caller].results[1].status = "error"
    /\ local[Caller].results[2].status = "reconciled"
    /\ local[Caller].results[1].name # local[Caller].results[2].name

----------------------------------------------------------------------------
(* StoreSpec: the policy cache under a run of policy events, with the pod    *)
(* watcher looking policies up; the controller runs in dry-run mode          *)

MaxStoreEvents == 3

\* polA rewritten: a label selector and a target namespace, and no names, no
\* resources and no enabled field
PolALabels ==
    [metadata |-> [name |-> "polA", namespace |-> "ns1"],
     spec |-> [targetPods |-> [labelSelector |-> [app |-> "foo"], namespace |-> "ns2"]]]

StoreObjects == {PolA, PolAOff, PolALabels, PolB}

StoreKeys == {ObjectKey(o) : o \in StoreObjects}

\* the policy stream delivers ADDED, MODIFIED or DELETED for one of the objects
StoreEvent(w) ==
    /\ w = PW
    /\ local[w].pc = "watch"
    /\ env_events > 0
    /\ \E type \in {"ADDED", "MODIFIED", "DELETED"}, obj \in StoreObjects :
          /\ type = "ADDED" => ObjectKey(obj) \notin ApiPolicyKeys
          /\ type = "MODIFIED" => ObjectKey(obj) \in ApiPolicyKeys /\ obj \notin api_policies
          /\ type = "DELETED" => obj \in api_policies
          /\ api_policies' =
                {o \in api_policies : ObjectKey(o) # ObjectKey(obj)}
                \cup (IF type = "DELETED" THEN {} ELSE {obj})
          /\ policy_status' =
                IF type = "DELETED"
                THEN [policy_status EXCEPT ![ObjectKey(obj)] = NoStatus]
                ELSE policy_status
          /\ SetLocal(w, [Parked(IF type = "DELETED" THEN "remove" ELSE "add_or_update")
                            EXCEPT !.object = obj])
    /\ env_events' = env_events - 1
    /\ UNCHANGED <<pure_vars, dry_run, cluster, policies, cache_lock, processed_pods,
                   reconciled_pods>>

StoreInit ==
    /\ HarnessIdle
    /\ dry_run = TRUE
    /\ cluster \in {{WebPod(r)} : r \in PodRequirements}
    /\ api_policies = {}
    /\ policy_status = [k \in StoreKeys |-> NoStatus]
    /\ policies = <<>>
    /\ cache_lock = "free"
    /\ processed_pods = {}
    /\ reconciled_pods = {}
    /\ local = [w \in Threads |->
                  CASE w = PW -> Parked("watch")
                    [] w = WW -> Parked("get_target_namespaces")
                    [] OTHER -> Parked("parked")]
    /\ env_events = MaxStoreEvents

StoreNext ==
    \/ StoreEvent(PW)
    \/ \E w \in {PW, WW} :
          \/ LockAcquire(w)
          \/ list_pods(w)
          \/ reconcile_pod(w)
          \/ reconcile_loop_end(w)
          \/ update_policy_status(w)
    \/ add_or_update(PW)
    \/ remove(PW)
    \/ get_target_namespaces(WW)
    \/ stream_timeout(WW)
    \/ PodEvent(WW)
    \/ check_processed(WW)
    \/ find_matching_policy(WW)
    \/ mark_processed(WW)

StoreSpec == StoreInit /\ [][StoreNext]_vars

\* the entries of the store with this key
Entries(key) == {i \in DOMAIN policies : PolicyKey(policies[i]) = key}

\* the object last upserted with this key and not removed since: the one the
\* API holds
Upserted(key) == {o \in api_policies : ObjectKey(o) = key}

\* C25: after any run of upserts and removes the policy store has at most
\* one entry per (namespace, name) key, and the entry is the parse of the last
\* object upserted with that key since the key was last removed; an upsert
\* replaces the entry as a whole, so a field the new object lacks takes its
\* default and never keeps the value of the old entry.
C25_StoreHoldsLastUpsert ==
    /\ [](\A key \in StoreKeys :
             /\ Cardinality(Entries(key)) <= 1
             /\ local[PW].pc = "watch" =>
                   {policies[i] : i \in Entries(key)} = {from_crd(o) : o \in Upserted(key)})
    /\ [][\A key \in StoreKeys :
             /\ (local[PW].pc = "add_or_update" /\ local'[PW] # local[PW]) =>
                   {policies'[i] : i \in {j \in DOMAIN policies' :
                                            PolicyKey(policies'[j]) = key}}
                      = IF key = ObjectKey(local[PW].object)
                        THEN {from_crd(local[PW].object)}
                        ELSE {policies[i] : i \in Entries(key)}
             /\ (local[PW].pc = "remove" /\ local'[PW] # local[PW]) =>
                   {policies'[i] : i \in {j \in DOMAIN policies' :
                                            PolicyKey(policies'[j]) = key}}
                      = IF key = ObjectKey(local[PW].object)
                        THEN {}
                        ELSE {policies[i] : i \in Entries(key)}]_vars

\* the pod watcher opened its stream on ns2 while polA targeted it; polA was
\* then upserted without selector and target namespace, and the store holds it
\* with the defaults of both
C25_Witness ==
    /\ local[PW].pc = "watch"
    /\ local[WW].watch_ns = "ns2"
    /\ api_policies = {PolA}
    /\ policies = <<from_crd(PolA)>>
    /\ policies[1].target_namespace = "ns1"
    /\ policies[1].target_label_selector = <<>>

\* the stored policies, by position, that match the pod
Hits(pod) == {i \in DOMAIN policies : matches_pod(policies[i], pod)}

\* C26: find_matching_policy returns a policy that is in the store and
\* matches the pod, the first such in iteration order, and returns None if
\* and only if no stored policy matches the pod.
C26_FirstMatchReturned ==
    [][(local[WW].pc = "find_matching_policy" /\ local'[WW] # local[WW]) =>
          LET pod == local[WW].pod
          IN IF Hits(pod) = {}
             THEN local'[WW].pc = "stream"
             ELSE /\ local'[WW].pc = "mark_processed"
                  /\ \E i \in Hits(pod) :
                        /\ local'[WW].policy = policies[i]
                        /\ \A j \in Hits(pod) : i <= j
                  /\ matches_pod(local'[WW].policy, pod)]_vars

\* polB was stored before polA, both match pod web, and the lookup gave polB
C26_Witness ==
    /\ local[WW].pc = "mark_processed"
    /\ Len(policies) = 2
    /\ Hits(local[WW].pod) = {1, 2}
    /\ policies[1].name = "polB"
    /\ local[WW].policy = policies[1]

----------------------------------------------------------------------------
(* StopSpec: the periodic reconciler and the main thread, which sets the     *)
(* stop event at some moment                                                 *)

\* run: KeyboardInterrupt in the main loop, self._stop_event.set()
stop_event_set(w) ==
    /\ w = Caller
    /\ local[w].pc = "run"
    /\ SetLocal(w, Parked("stop_set"))
    /\ UNCHANGED <<pure_vars, dry_run, api_vars, policies, cache_lock, processed_pods,
                   reconciled_pods, env_events>>

StopInit ==
    /\ HarnessIdle
    /\ dry_run \in BOOLEAN
    /\ cluster \in {{WebPod(r)} : r \in PodRequirements}
    /\ api_policies \in {{PolA, PolB}, {PolB}}
    /\ policy_status = [k \in ResyncKeys |-> NoStatus]
    /\ policies = LoadedPolicies(api_policies)
    /\ cache_lock = "free"
    /\ processed_pods = {}
    /\ reconciled_pods = {}
    /\ local = [w \in Threads |->
                  CASE w = PR -> Parked("clear_processed")
                    [] w = Caller -> Parked("run")
                    [] OTHER -> Parked("parked")]
    /\ env_events \in 0..MaxEnvEvents

StopNext ==
    \/ stop_event_set(Caller)
    \/ LockAcquire(PR)
    \/ clear_processed(PR)
    \/ get_all(PR)
    \/ next_policy(PR)
    \/ list_pods(PR)
    \/ reconcile_loop_end(PR)
    \/ reconcile_pod(PR)
    \/ delete_namespaced_pod(PR)
    \/ create_namespaced_pod(PR)
    \/ update_policy_status(PR)

StopSpec == StopInit /\ [][StopNext]_vars

\* C27: once the stop event is set, a worker sees it at its next loop
\* iteration, starts no reconcile beyond the call it is in, and ends; for the
\* periodic reconciler: with the stop event set it starts no further
\* reconcile_all_pods_for_policy call.
C27_NoReconcileAfterStop ==
    [][stop_event_is_set =>
          ~(local[PR].pc = "next_policy" /\ local'[PR].pc = "list_pods")]_vars

----------------------------------------------------------------------------
(* WatchErrSpec: the two watchers, with a stream that may raise              *)

\* where a watcher's while loop starts over: the policy stream is opened, the
\* target namespaces are read
LoopHead(w) == IF w = PW THEN "watch" ELSE "get_target_namespaces"

\* the stream raises (ApiException or another Exception): the error is
\* logged and the watcher is in time.sleep(5).  ret keeps the error raised.
stream_error(w) ==
    /\ w \in {PW, WW}
    /\ local[w].pc = IF w = PW THEN "watch" ELSE "stream"
    /\ env_events > 0
    /\ env_events' = env_events - 1
    /\ ret' = [fn |-> IF w = PW THEN "watch_policies" ELSE "watch_pods",
               bool |-> FALSE, status |-> "ApiException"]
    /\ SetLocal(w, Parked("retry_delay"))
    /\ UNCHANGED <<arg_policy, arg_pod, dry_run, api_vars, policies, cache_lock,
                   processed_pods, reconciled_pods>>

retry_delay_gives_up(w) ==
    /\ local[w].pc = "retry_delay"
    /\ SetLocal(w, Parked("terminated"))
    /\ UNCHANGED <<pure_vars, dry_run, api_vars, policies, cache_lock, processed_pods,
                   reconciled_pods, env_events>>

\* the sleep is over and the while loop tests the stop event
retry_delay(w) ==
    /\ local[w].pc = "retry_delay"
    /\ SetLocal(w, IF stop_event_is_set THEN Parked("terminated")
                   ELSE Parked(LoopHead(w)))
    /\ UNCHANGED <<pure_vars, dry_run, api_vars, policies, cache_lock, processed_pods,
                   reconciled_pods, env_events>>

WatchErrInit ==
    /\ HarnessIdle
    /\ dry_run \in BOOLEAN
    /\ cluster \in {{WebPod(r)} : r \in PodRequirements}
    /\ api_policies = {PolA}
    /\ policy_status = [k \in PolicyKeys |-> NoStatus]
    /\ policies = LoadedPolicies(api_policies)
    /\ cache_lock = "free"
    /\ processed_pods = {}
    /\ reconciled_pods = {}
    /\ local = [w \in Threads |->
                  CASE w = PW -> Parked("watch")
                    [] w = WW -> Parked("get_target_namespaces")
                    [] OTHER -> Parked("parked")]
    /\ env_events = MaxEnvEvents

WatchErrNext ==
    \/ PolicyRelist(PW)
    \/ add_or_update(PW)
    \/ list_pods(PW)
    \/ get_target_namespaces(WW)
    \/ stream_timeout(WW)
    \/ PodEvent(WW)
    \/ check_processed(WW)
    \/ find_matching_policy(WW)
    \/ mark_processed(WW)
    \/ \E w \in {PW, WW} :
          \/ LockAcquire(w)
          \/ stream_error(w)
          \/ retry_delay(w)
          \/ reconcile_pod(w)
          \/ reconcile_loop_end(w)
          \/ delete_namespaced_pod(w)
          \/ create_namespaced_pod(w)
          \/ update_policy_status(w)

WatchErrSpec == WatchErrInit /\ [][WatchErrNext]_vars

\* C29: a transport error on the policy stream or the pod stream never ends
\* its watcher: with the stop event not set the watcher sleeps the fixed
\* delay, goes back to the head of its loop, opens the stream again and
\* handles the events that follow.
C29_StreamErrorRetried ==
    /\ [](\A w \in {PW, WW} : local[w].pc # "terminated")
    /\ [][\A w \in {PW, WW} :
             /\ (local[w].pc \in {"watch", "stream"} /\ local'[w] # local[w]
                   /\ env_events' < env_events) =>
                   /\ local'[w].pc = "retry_delay"
                   /\ cluster' = cluster
                   /\ policies' = policies
                   /\ processed_pods' = processed_pods
             /\ (local[w].pc = "retry_delay" /\ local'[w] # local[w]) =>
                   local'[w] = Parked(LoopHead(w))]_vars

\* the pod stream raised, and after it the pod watcher took an event of pod
\* web and replaced the pod
C29_Witness ==
    /\ ret.fn = "watch_pods"
    /\ ret.status = "ApiException"
    /\ local[WW].pc = "update_status"
    /\ local[WW].results # <<>>
    /\ local[WW].results[1].status = "reconciled"

----------------------------------------------------------------------------
(* BuildSpec: reconcile_pod on pods of one or two containers, with labels    *)
(* and annotations of their own, under policies of every declared shape      *)

\* containers whose resources differ from one another
BuildContainers ==
    {<<Requirements(RequestsLow, NoBlock)>>,
     <<Requirements(RequestsHigh, LimitsCpu)>>,
     <<Requirements(RequestsLow, NoBlock), Requirements(RequestsHigh, LimitsCpu)>>,
     <<Requirements(RequestsHigh, NoBlock), Requirements(RequestsLow, NoBlock)>>}

\* pods never reconciled, and pods that polB reconciled before
BuildPods ==
    {[MakePod("web", "ns1", 1, labels, containers) EXCEPT !.annotations = annotations] :
        labels \in {<<>>, [app |-> "foo"]},
        containers \in BuildContainers,
        annotations \in {NoAnnotations,
                         [NoAnnotations EXCEPT !.note = "kept"],
                         [managed_by |-> "polB",
                          original_resources |-> serialize_resources(NoResources),
                          note |-> "kept"]}}

BuildPolicies ==
    {MakePolicy("polA", "ns1", {"web"}, <<>>, "ns1",
                [requests |-> rq, limits |-> lm], TRUE) :
        rq \in Blocks, lm \in {NoBlock, LimitsCpu, LimitsBoth}}

BuildInit ==
    /\ HarnessIdle
    /\ dry_run = FALSE
    /\ \E pod \in BuildPods, policy \in BuildPolicies :
          /\ cluster = {pod}
          /\ local = [w \in Threads |->
                        IF w = Caller
                        THEN [Parked("reconcile_pod") EXCEPT !.policy = policy,
                                                             !.todo = <<pod>>]
                        ELSE Parked("parked")]
    /\ api_policies = {}
    /\ policy_status = [k \in PolicyKeys |-> NoStatus]
    /\ policies = <<>>
    /\ cache_lock = "free"
    /\ processed_pods = {}
    /\ reconciled_pods = {}
    /\ env_events = 0

BuildNext ==
    \/ reconcile_pod(Caller)
    \/ delete_namespaced_pod(Caller)
    \/ create_namespaced_pod(Caller)
    \/ reconcile_loop_end(Caller)

BuildSpec == BuildInit /\ [][BuildNext]_vars

\* the pod reconcile_pod was given, and the pod now live under its name
Original == local[Caller].pod

Replacement == LivePod(PodKey(Original))

Replaced == local[Caller].pc = "returned" /\ local[Caller].status = "reconciled"

----------------------------------------------------------------------------
(* ContainerSpec: needs_reconciliation and reconcile_pod's decision on pods  *)
(* of no, one and two containers                                             *)

ContainerResources ==
    {Requirements(rq, lm) : rq \in {NoBlock, RequestsLow, RequestsHigh},
                            lm \in {NoBlock, LimitsCpu}}

ContainerLists == UNION {[1..n -> ContainerResources] : n \in 0..2}

ContainerInit ==
    /\ arg_policy \in
          {MakePolicy("polA", "ns1", {"web"}, <<>>, "ns1",
                      [requests |-> rq, limits |-> lm], TRUE) :
              rq \in {NoBlock, RequestsLow, RequestsHigh}, lm \in {NoBlock, LimitsCpu}}
    /\ arg_pod \in {MakePod("web", "ns1", 1, <<>>, containers) :
                       containers \in ContainerLists}
    /\ dry_run \in BOOLEAN
    /\ ret = NoRet
    /\ ControllerIdle

ContainerNext == CallNeedsReconciliation \/ CallReconcilePod

ContainerSpec == ContainerInit /\ [][ContainerNext]_vars

\* the resources of container 0, all empty for a pod without containers
Container0(pod) ==
    IF pod.containers = <<>> THEN Requirements(NoBlock, NoBlock) ELSE pod.containers[1]

\* the block is not declared by the policy, or container 0 carries its values
Container0Agrees(pod, policy, block) ==
    \/ ~Declared(policy.resources[block])
    \/ resources_match(Container0(pod)[block].cpu, Container0(pod)[block].memory,
                       policy.resources[block].cpu, policy.resources[block].memory,
                       RESOURCE_TOLERANCE)

\* C31: drift detection reads the first container only: needs_reconciliation
\* is decided by the requests and limits of container 0, a pod whose
\* container 0 agrees with the policy is compliant whatever its other
\* containers carry, and a pod without containers is compared as all-empty.
C31_FirstContainerOnly ==
    ret.fn \in {"needs_reconciliation", "reconcile_pod"} =>
        /\ ret.bool = ~(/\ Container0Agrees(arg_pod, arg_policy, "requests")
                        /\ Container0Agrees(arg_pod, arg_policy, "limits"))
        /\ (ret.fn = "reconcile_pod" /\ ~ret.bool) => ret.status = "compliant"

\* container 0 carries the policy's requests, container 1 does not, and the
\* pod is compliant
C31_Witness ==
    /\ ret.fn = "reconcile_pod"
    /\ ret.status = "compliant"
    /\ Len(arg_pod.containers) = 2
    /\ arg_policy.resources = [requests |-> RequestsHigh, limits |-> NoBlock]
    /\ arg_pod.containers[1].requests = RequestsHigh
    /\ arg_pod.containers[2].requests = RequestsLow

----------------------------------------------------------------------------
(* TargetNsSpec: the pod watcher reading the target namespaces of stores     *)
(* that hold enabled and disabled policies, one of them without a target     *)
(* namespace                                                                 *)

\* polB with an empty target namespace: pods of every namespace
PolBAll ==
    [metadata |-> [name |-> "polB", namespace |-> "ns1"],
     spec |-> [targetPods |-> [labelSelector |-> [app |-> "foo"], namespace |-> ""],
               resources |-> [requests |-> NoBlock, limits |-> LimitsCpu]]]

\* polC switched off
PolCOff ==
    [metadata |-> [name |-> "polC", namespace |-> "ns2"],
     spec |-> [targetPods |-> [names |-> {"db"}],
               resources |-> [requests |-> RequestsHigh, limits |-> NoBlock],
               enabled |-> FALSE]]

\* the stores: for each key no object, or one of its objects
TargetNsStores ==
    {SelectSeq(<<a, b, c>>, LAMBDA o : o # <<>>) :
        a \in {<<>>, PolA, PolAOff, PolALabels},
        b \in {<<>>, PolB, PolBAll},
        c \in {<<>>, PolC, PolCOff}}

TargetNsInit ==
    /\ HarnessIdle
    /\ dry_run = FALSE
    /\ cluster = {}
    /\ \E objects \in TargetNsStores :
          /\ api_policies = {objects[i] : i \in DOMAIN objects}
          /\ policies = [i \in DOMAIN objects |-> from_crd(objects[i])]
    /\ policy_status = [k \in PolicyKeys |-> NoStatus]
    /\ cache_lock = "free"
    /\ processed_pods = {}
    /\ reconciled_pods = {}
    /\ local = [w \in Threads |->
                  IF w = WW THEN Parked("get_target_namespaces") ELSE Parked("parked")]
    /\ env_events = 0

TargetNsNext ==
    \/ LockAcquire(WW)
    \/ get_target_namespaces(WW)
    \/ stream_timeout(WW)

TargetNsSpec == TargetNsInit /\ [][TargetNsNext]_vars

\* the namespaces some enabled policy of the store targets
EnabledTargets ==
    {namespace \in Namespaces :
        \E i \in DOMAIN policies :
            policies[i].enabled /\ policies[i].target_namespace = namespace}

\* C32: get_target_namespaces returns exactly the non-empty target
\* namespaces of the policies enabled in the store when it is called: none of
\* a disabled or removed policy, each once.
C32_TargetNamespaces ==
    /\ [](TargetNamespaces(policies) = EnabledTargets)
    /\ [][(local[WW].pc = "get_target_namespaces" /\ local'[WW] # local[WW]) =>
             IF EnabledTargets = {}
             THEN local'[WW].watch_ns = ""
             ELSE local'[WW].watch_ns \in EnabledTargets]_vars

\* a store with polA disabled (ns1), polB without target namespace and polC
\* enabled (ns2): the stream is on ns2
C32_Witness ==
    /\ local[WW].pc = "stream"
    /\ local[WW].watch_ns = "ns2"
    /\ Len(policies) = 3
    /\ ~policies[1].enabled
    /\ policies[1].target_namespace = "ns1"
    /\ policies[2].target_namespace = ""
    /\ EnabledTargets = {"ns2"}

----------------------------------------------------------------------------
(* QuantitySpec: resources_match applied to pairs of CPU and memory strings  *)

\* "", "1m", "100m", "0.1", "100.5m", "102m": differences of 0, 0.0005,
\* 0.001 (against "", where the float difference is exact) and 0.002 cores
QuantityCpus ==
    {EmptyStr, CpuStr(1000, "m"), CpuStr(100000, "m"), CpuStr(100, ""),
     CpuStr(100500, "m"), CpuStr(102000, "m")}

\* "128Mi", "134217727", "134217728", "134217729", "1Ki", "1K"
QuantityMemories ==
    {MemStr(128, "Mi"), MemStr(134217727, ""), MemStr(134217728, ""),
     MemStr(134217729, ""), MemStr(1, "Ki"), MemStr(1, "K")}

QuantityInit ==
    /\ arg_pod \in [cpu : QuantityCpus, memory : QuantityMemories]
    /\ arg_policy \in [cpu : QuantityCpus, memory : QuantityMemories]
    /\ dry_run = FALSE
    /\ ret = NoRet
    /\ ControllerIdle

\* resources_match(actual_cpu, actual_memory, desired_cpu, desired_memory)
\* with the default tolerance
CallResourcesMatch ==
    /\ ret.fn = "none"
    /\ ret' = [fn |-> "resources_match",
               bool |-> resources_match(arg_pod.cpu, arg_pod.memory,
                                        arg_policy.cpu, arg_policy.memory,
                                        RESOURCE_TOLERANCE),
               status |-> ""]
    /\ UNCHANGED <<arg_policy, arg_pod, dry_run, ctl_vars>>

QuantityNext == CallResourcesMatch

QuantitySpec == QuantityInit /\ [][QuantityNext]_vars

\* the quantity a CPU string of the inputs denotes, in micro-cores
MicroCores(cpu_string) ==
    CASE cpu_string = EmptyStr -> 0
      [] cpu_string = CpuStr(1000, "m") -> 1000
      [] cpu_string = CpuStr(100000, "m") -> 100000
      [] cpu_string = CpuStr(100, "") -> 100000
      [] cpu_string = CpuStr(100500, "m") -> 100500
      [] cpu_string = CpuStr(102000, "m") -> 102000

\* the quantity a memory string of the inputs denotes, in bytes
Bytes(memory_string) ==
    CASE memory_string = MemStr(128, "Mi") -> 134217728
      [] memory_string = MemStr(1, "Ki") -> 1024
      [] memory_string = MemStr(1, "K") -> 1000
      [] OTHER -> memory_string.num

----------------------------------------------------------------------------
(* SafeSpec: calculate_safe_resources of the legacy controller, src/utils.py *)
(* CPU is carried in micro-cores and memory in Ki (node allocatable memory   *)
(* is a whole number of Ki), so that every product of the code is an integer *)
(* and 16Gi stays below 2^31; truncating to whole Ki instead of whole bytes  *)
(* between the steps leaves the Mi and Gi figures unchanged.                 *)

\* format_cpu: int(cores * 1000) followed by "m"
format_cpu(micro_cores) == CpuStr((micro_cores \div 1000) * 1000, "m")

format_memory_mi_only(ki_value) == MemStr(ki_value \div 1024, "Mi")

\* format_memory: whole Mi, or whole Gi once the value is at least 1024 Mi
format_memory(ki_value) ==
    IF ki_value >= 1024 * 1024
    THEN MemStr(ki_value \div (1024 * 1024), "Gi")
    ELSE MemStr(ki_value \div 1024, "Mi")

\* calculate_safe_resources(node_allocatable_cpu (milli-cores),
\* node_allocatable_memory (Ki), safety_margin (percent))
calculate_safe_resources(node_allocatable_cpu, node_allocatable_memory, safety_margin) ==
    LET safe_cpu == node_allocatable_cpu * safety_margin * 10
        safe_memory == (node_allocatable_memory * safety_margin) \div 100
        cpu_request == format_cpu((safe_cpu * 2) \div 10)
        cpu_limit == format_cpu((safe_cpu * 5) \div 10)
        memory_request == format_memory((safe_memory * 2) \div 10)
        memory_limit == format_memory((safe_memory * 5) \div 10)
    IN <<cpu_request, memory_request, cpu_limit, memory_limit>>

\* 0, 0.5, 1, 3.3 and 4 cores
SafeCpus == {0, 500, 1000, 3300, 4000}

\* 0, 1Mi, 5Mi, 8000000Ki, 1Gi, 4Gi, 8Gi, 10Gi, 16Gi
SafeMemories ==
    {0, 1024, 5 * 1024, 8000000, 1024 * 1024, 4 * 1024 * 1024, 8 * 1024 * 1024,
     10 * 1024 * 1024, 16 * 1024 * 1024}

\* 0, 0.1, 0.5 (RESOURCE_SAFETY_MARGIN), 0.8, 1.0
SafeMargins == {0, 10, 50, 80, 100}

SafeInit ==
    /\ arg_policy \in [node_allocatable_cpu : SafeCpus,
                       node_allocatable_memory : SafeMemories,
                       safety_margin : SafeMargins]
    /\ arg_pod = NilPod
    /\ dry_run = FALSE
    /\ ret = NoRet
    /\ ControllerIdle

CallCalculateSafeResources ==
    /\ ret.fn = "none"
    /\ ret' = [fn |-> "calculate_safe_resources",
               value |-> calculate_safe_resources(arg_policy.node_allocatable_cpu,
                                                  arg_policy.node_allocatable_memory,
                                                  arg_policy.safety_margin)]
    /\ UNCHANGED <<arg_policy, arg_pod, dry_run, ctl_vars>>

SafeNext == CallCalculateSafeResources

SafeSpec == SafeInit /\ [][SafeNext]_vars

\* `percent` of the margin-adjusted CPU capacity, in whole milli-cores
MilliShare(percent) ==
    (arg_policy.node_allocatable_cpu * arg_policy.safety_margin * percent) \div 10000

\* one `divisor`-th of the margin-adjusted memory capacity, in whole Mi
MiShare(divisor) ==
    (arg_policy.node_allocatable_memory * arg_policy.safety_margin)
        \div (100 * divisor * 1024)

\* a whole number of Mi as the code prints it
MiString(mi) == IF mi >= 1024 THEN MemStr(mi \div 1024, "Gi") ELSE MemStr(mi, "Mi")

\* the Mi a printed memory quantity stands for
MiOf(memory_string) ==
    IF memory_string.suf = "Gi" THEN memory_string.num * 1024 ELSE memory_string.num

----------------------------------------------------------------------------
(* QuiesceSpec: the controller with its three threads scheduled fairly, over *)
(* a store that stays as loaded (polA alone, or polA and polB which both     *)
(* match the pod), with no API failure and no change from outside            *)

QuiesceInit ==
    /\ HarnessIdle
    /\ dry_run = FALSE
    /\ cluster \in {{WebPod(r)} : r \in PodRequirements}
    /\ api_policies \in {{PolA}, {PolA, PolB}}
    /\ policy_status = [k \in PolicyKeys |-> NoStatus]
    /\ policies = LoadedPolicies(api_policies)
    /\ cache_lock = "free"
    /\ processed_pods = {}
    /\ reconciled_pods = {}
    /\ local = StartedThreads
    /\ env_events = 0

\* the policy stream delivers nothing: the policy watcher stays in its watch
QuiesceStep(w) ==
    \/ list_pods(w)
    \/ reconcile_loop_end(w)
    \/ reconcile_pod(w)
    \/ delete_namespaced_pod(w)
    \/ create_namespaced_pod(w)
    \/ update_policy_status(w)
    \/ get_target_namespaces(w)
    \/ check_processed(w)
    \/ find_matching_policy(w)
    \/ mark_processed(w)
    \/ clear_processed(w)
    \/ get_all(w)
    \/ next_policy(w)

QuiesceNext ==
    \E w \in {WW, PR} :
        \/ LockAcquire(w)
        \/ PodEvent(w)
        \/ stream_timeout(w)
        \/ QuiesceStep(w)

\* a thread that can take a step takes one, and a thread that keeps finding
\* the lock free gets it; whether the pod stream delivers anything is left open
QuiesceFairness ==
    \A w \in {WW, PR} :
        /\ WF_vars(QuiesceStep(w))
        /\ SF_vars(LockAcquire(w))

QuiesceSpec == QuiesceInit /\ [][QuiesceNext]_vars /\ QuiesceFairness

\* some worker is about to issue a delete or a create call
Replacing == \E w \in Workers : local[w].pc \in {"delete", "create"}

\* C35: with the stored policies fixed and nothing changing the pods from
\* outside, the controller eventually stops issuing delete and create calls.
C35_Quiescence == <>[](~Replacing)

----------------------------------------------------------------------------
(* The statuses of results, on ResyncSpec: passes over a drifted or a        *)
(* compliant pod, in dry-run mode or not, with an API call that may fail     *)

\* C37: every result reconcile_pod returns has status compliant, dry-run,
\* reconciled or error; the initial `unchanged` is never returned, and so
\* never appears in the managedPods of a policy's status.
C37_ResultStatusRange ==
    /\ \A w \in Threads :
          /\ \A i \in DOMAIN local[w].results : local[w].results[i].status \in Terminal
          /\ local[w].status = "unchanged" => local[w].pc \in {"delete", "create"}
    /\ \A k \in DOMAIN policy_status :
          \A i \in DOMAIN policy_status[k].managedPods :
              policy_status[k].managedPods[i].status \in Terminal

\* the pod was deleted, its create failed, and the status of the policy
\* reports the result as error
C37_Witness ==
    /\ cluster = {}
    /\ env_events = 0
    /\ \E k \in DOMAIN policy_status :
          /\ Len(policy_status[k].managedPods) = 1
          /\ policy_status[k].managedPods[1].status = "error"

----------------------------------------------------------------------------
(* LegacySpec: the legacy controller (src/controller.py), one thread taking  *)
(* ADDED and MODIFIED pod events from its watch stream, over one pod and the *)
(* replacements the controller creates for it.  local[Caller].todo is the    *)
(* stream: the pod objects of the events not yet taken, oldest first.        *)

\* MAX_FIX_ATTEMPTS
MAX_FIX_ATTEMPTS == 3

\* pod events from outside and failing API calls, together
MaxLegacyEvents == 2

\* a pod as the legacy controller reads it; an absent fix-attempt-count
\* annotation reads as 0
LegacyPod(uid, phase, opt_in, attempt_count, containers) ==
    [name |-> "web", namespace |-> "ns1", uid |-> uid, phase |-> phase,
     annotations |-> [auto_fix_resources |-> opt_in,
                      fix_attempt_count |-> attempt_count,
                      resource_controller_managed |-> ""],
     containers |-> containers]

should_process_pod_unbounded(pod) ==
    /\ pod.phase = "Pending"
    /\ pod.annotations.auto_fix_resources = "true"
    /\ ProcessedKey(pod) \notin processed_pods

\* should_process_pod: Pending, opted in, fewer than MAX_FIX_ATTEMPTS
\* attempts, and not processed in this session
should_process_pod(pod) ==
    /\ pod.phase = "Pending"
    /\ pod.annotations.auto_fix_resources = "true"
    /\ ~(pod.annotations.fix_attempt_count >= MAX_FIX_ATTEMPTS)
    /\ ProcessedKey(pod) \notin processed_pods

\* create_fixed_pod_spec, for nodes of 4 cores and 8Gi: the original's
\* metadata and spec, the managed annotation, the attempt counter plus one,
\* the calculated resources on every container, and no uid and no status
create_fixed_pod_spec(original_pod) ==
    LET safe == calculate_safe_resources(4000, 8 * 1024 * 1024, 50)
        current_attempts == original_pod.annotations.fix_attempt_count
    IN [original_pod EXCEPT
          !.uid = 0,
          !.phase = "",
          !.annotations = [@ EXCEPT !.resource_controller_managed = "true",
                                    !.fix_attempt_count = current_attempts + 1],
          !.containers = [i \in DOMAIN original_pod.containers |->
                            Requirements([cpu |-> safe[1], memory |-> safe[2]],
                                         [cpu |-> safe[3], memory |-> safe[4]])]]

\* run and process_pod: the next event of the stream; should_process_pod;
\* is_pending_due_to_resources (what the pod's events say is left open); the
\* pod marked as processed; fix_pod up to its delete call
process_pod(w) ==
    /\ local[w].pc = "stream"
    /\ local[w].todo # <<>>
    /\ LET pod == Head(local[w].todo)
           taken == [local[w] EXCEPT !.pod = pod, !.todo = Tail(local[w].todo)]
       IN IF ~should_process_pod(pod)
          THEN /\ SetLocal(w, taken)
               /\ UNCHANGED processed_pods
          ELSE \E pending_due_to_resources \in BOOLEAN :
                  IF ~pending_due_to_resources
                  THEN /\ SetLocal(w, taken)
                       /\ UNCHANGED processed_pods
                  ELSE /\ processed_pods' = processed_pods \cup {ProcessedKey(pod)}
                       /\ SetLocal(w, IF dry_run THEN taken
                                      ELSE [taken EXCEPT !.pc = "delete"])
    /\ UNCHANGED <<pure_vars, dry_run, api_vars, policies, cache_lock, reconciled_pods,
                   env_events>>

\* fix_pod: delete_namespaced_pod by name; a 404 is passed over, any other
\* error ends the fix
fix_pod_delete(w) ==
    /\ local[w].pc = "delete"
    /\ \E fail \in FailChoices :
          /\ Spend(fail)
          /\ cluster' = IF fail THEN cluster
                        ELSE {p \in cluster : PodKey(p) # PodKey(local[w].pod)}
          /\ SetLocal(w, [local[w] EXCEPT !.pc = IF fail THEN "stream" ELSE "create"])
    /\ UNCHANGED <<pure_vars, dry_run, api_policies, policy_status, policies, cache_lock,
                   processed_pods, reconciled_pods>>

\* fix_pod: create_namespaced_pod of the fixed pod; the new pod is Pending
\* and the stream reports it as ADDED.  local[w].calls counts the fixes done.
fix_pod_create(w) ==
    /\ local[w].pc = "create"
    /\ \E fail \in FailChoices :
          LET new_pod == [create_fixed_pod_spec(local[w].pod) EXCEPT
                             !.uid = FreshUid, !.phase = "Pending"]
              created == ~fail /\ LivePod(PodKey(local[w].pod)) = NilPod
          IN /\ Spend(fail)
             /\ cluster' = IF created THEN cluster \cup {new_pod} ELSE cluster
             /\ SetLocal(w, IF created
                            THEN [local[w] EXCEPT !.pc = "stream",
                                                  !.todo = Append(@, new_pod),
                                                  !.calls = @ + 1]
                            ELSE [local[w] EXCEPT !.pc = "stream"])
    /\ UNCHANGED <<pure_vars, dry_run, api_policies, policy_status, policies, cache_lock,
                   processed_pods, reconciled_pods>>

\* the pod changes from outside (it is scheduled, or its status is written
\* again) and the stream reports it as MODIFIED
pod_modified(w) ==
    /\ env_events > 0
    /\ \E pod \in cluster, phase \in {"Pending", "Running"} :
          /\ cluster' = (cluster \ {pod}) \cup {[pod EXCEPT !.phase = phase]}
          /\ SetLocal(w, [local[w] EXCEPT !.todo = Append(@, [pod EXCEPT !.phase = phase])])
    /\ env_events' = env_events - 1
    /\ UNCHANGED <<pure_vars, dry_run, api_policies, policy_status, policies, cache_lock,
                   processed_pods, reconciled_pods>>

\* the pods the chain may start from: not opted in, never fixed, fixed
\* twice, fixed three times or more
LegacyPods ==
    {LegacyPod(1, phase, opt_in, attempt_count, <<Requirements(RequestsHigh, NoBlock)>>) :
        phase \in {"Pending", "Running"}, opt_in \in {"true", ""},
        attempt_count \in {0, 2, MAX_FIX_ATTEMPTS, MAX_FIX_ATTEMPTS + 1}}

\* the stream starts with the ADDED event of the pod
LegacyInit ==
    /\ arg_policy = NilPolicy
    /\ arg_pod \in LegacyPods
    /\ ret = NoRet
    /\ dry_run \in BOOLEAN
    /\ cluster = {arg_pod}
    /\ api_policies = {}
    /\ policy_status = [k \in PolicyKeys |-> NoStatus]
    /\ policies = <<>>
    /\ cache_lock = "free"
    /\ processed_pods = {}
    /\ reconciled_pods = {}
    /\ local = [w \in Threads |->
                  IF w = Caller THEN [Parked("stream") EXCEPT !.todo = <<arg_pod>>]
                  ELSE Parked("parked")]
    /\ env_events = MaxLegacyEvents

LegacyNext ==
    \/ process_pod(Caller)
    \/ fix_pod_delete(Caller)
    \/ fix_pod_create(Caller)
    \/ pod_modified(Caller)

LegacySpec == LegacyInit /\ [][LegacyNext]_vars

\* the pods of `before` that `after` no longer holds under any phase
Removed(before, after) == {p \in before : \A q \in after : q.uid # p.uid}

\* C38: the legacy controller never deletes a pod whose fix-attempt-count
\* is MAX_FIX_ATTEMPTS or more, every replacement it creates carries the
\* counter of the pod it replaces plus one, and it fixes the pod and its
\* replacements at most MAX_FIX_ATTEMPTS times in all.
C38_BoundedFixAttempts ==
    /\ [](local[Caller].calls <= MAX_FIX_ATTEMPTS)
    /\ [](local[Caller].pc \in {"delete", "create"} =>
             local[Caller].pod.annotations.fix_attempt_count < MAX_FIX_ATTEMPTS)
    /\ [][/\ \A p \in Removed(cluster, cluster') :
                p.annotations.fix_attempt_count < MAX_FIX_ATTEMPTS
          /\ \A q \in Removed(cluster', cluster) :
                /\ q.annotations.fix_attempt_count =
                      local[Caller].pod.annotations.fix_attempt_count + 1
                /\ q.annotations.fix_attempt_count <= MAX_FIX_ATTEMPTS]_vars

\* a pod never fixed before was fixed three times; its third replacement is
\* Pending with counter 3, its event was taken, and nothing was done to it
C38_Witness ==
    /\ arg_pod.annotations.fix_attempt_count = 0
    /\ local[Caller].calls = MAX_FIX_ATTEMPTS
    /\ local[Caller].pc = "stream"
    /\ local[Caller].todo = <<>>
    /\ local[Caller].pod \in cluster
    /\ local[Caller].pod.phase = "Pending"
    /\ local[Caller].pod.annotations.fix_attempt_count = MAX_FIX_ATTEMPTS

====
